---- MODULE Spec2Model ----
(***************************************************************************)
(* State-machine model of the chibilibs containers.                        *)
(*                                                                         *)
(* Part 1: hash.h, the SwissTable-style map.  The memory image             *)
(* | metadata[] | keys[] | info | values[] | is a record; the handle `map` *)
(* is the image it points at (NULL when there is none).  The SSE2 group    *)
(* operations are modelled by what they compute on the 16 metadata bytes   *)
(* of a group.  64-bit words are tuples of 8 bytes, least significant      *)
(* first, so that the hash mixer is computed with its wrap-around.         *)
(***************************************************************************)
EXTENDS Integers, Sequences, FiniteSets, TLC

\* ------------------------------------------------------------------------
\* Bounds of the model
\* ------------------------------------------------------------------------
\* keys 0..MaxKey are used by the unrestricted caller (Spec)
MaxKey == 1
\* values 1..MaxVal are stored by the unrestricted caller
MaxVal == 2
\* reserve is called with the counts up to MaxReserve that lie at or just
\* above a multiple of the group width
MaxReserve == 33
\* the queue-like caller (SpecChurn) uses ids 0..NumIds-1 ...
NumIds == 165
\* ... and keeps at most ChurnWindow of them in the table
ChurnWindow == 23
\* the colliding-key caller (SpecCollide) uses NumCollide keys, stores at
\* most CollideWindow of them and deletes once CollideMin are stored
NumCollide == 30
CollideWindow == 24
CollideMin == 22
\* the filling caller (SpecFill) stores the ids 0..NumScratch-1 without
\* deleting any, or reserves FillReserveArg slots before its first put and
\* stores the ids 0..NumFill-1
NumScratch == 14
FillReserveArg == 100
NumFill == 98
\* the caller whose allocations may fail (SpecFail) uses ids 0..NumFailIds-1,
\* stores at most FailWindow of them and deletes once FailMin are stored
NumFailIds == 16
FailWindow == 14
FailMin == 13

\* ------------------------------------------------------------------------
\* 64-bit arithmetic on byte tuples
\* ------------------------------------------------------------------------
RECURSIVE BitXor(_, _)
BitXor(a, b) ==
  IF a = 0 THEN b
  ELSE IF b = 0 THEN a
  ELSE (((a % 2) + (b % 2)) % 2) + 2 * BitXor(a \div 2, b \div 2)

RECURSIVE BitAnd(_, _)
BitAnd(a, b) ==
  IF a = 0 \/ b = 0 THEN 0
  ELSE ((a % 2) * (b % 2)) + 2 * BitAnd(a \div 2, b \div 2)

RECURSIVE ByteOf(_, _)
ByteOf(n, i) == IF i = 1 THEN n % 256 ELSE ByteOf(n \div 256, i - 1)

\* a uint64_t holding the (small) natural n
U64(n) == [i \in 1..8 |-> ByteOf(n, i)]

Xor64(a, b) == [i \in 1..8 |-> BitXor(a[i], b[i])]

\* val >> 33 : four whole bytes and one bit
Shr33(a) ==
  [i \in 1..8 |->
     IF i <= 4
     THEN (a[i + 4] \div 2) + (IF i + 5 <= 8 THEN ((a[i + 5] % 2) * 128) ELSE 0)
     ELSE 0]

RECURSIVE MulCol(_, _, _, _)
MulCol(a, b, k, i) ==
  IF i > k THEN 0 ELSE (a[i] * b[k + 1 - i]) + MulCol(a, b, k, i + 1)

RECURSIVE MulFrom(_, _, _, _)
MulFrom(a, b, k, carry) ==
  IF k > 8 THEN <<>>
  ELSE LET s == MulCol(a, b, k, 1) + carry
       IN <<s % 256>> \o MulFrom(a, b, k + 1, s \div 256)

\* val *= c  (mod 2^64)
Mul64(a, b) == MulFrom(a, b, 1, 0)

\* ------------------------------------------------------------------------
\* hash.h : constants and the hash mixer
\* ------------------------------------------------------------------------
HASH__START_CAPACITY == 16
HASH__FREE == 0
HASH__TOMB == 1

\* width of a metadata group (one __m128i load)
GroupWidth == 16

\* static uint64_t hash__seed = 0x12345678ABCDEF00ULL
hash__seed == <<0, 239, 205, 171, 120, 86, 52, 18>>

\* 0xff51afd7ed558ccdULL and 0xc4ceb9fe1a85ec53ULL
MixMul1 == <<205, 140, 85, 237, 215, 175, 81, 255>>
MixMul2 == <<83, 236, 133, 26, 254, 185, 206, 196>>

\* val ^= val >> 33
XorShr33(v) == Xor64(v, Shr33(v))

hash__hash(val) ==
  XorShr33(Mul64(XorShr33(Mul64(XorShr33(Xor64(U64(val), hash__seed)), MixMul1)), MixMul2))

\* (h) & 0x01FFFFFFFFFFFFFF
hash__hash57(h) == [h EXCEPT ![8] = BitAnd(h[8], 1)]

\* ((h) >> 57) & 0x7F
hash__hash7(h) == BitAnd(h[8] \div 2, 127)

\* the low 24 bits of a word as a number; enough for every group mask
\* (capacity/16 - 1) that occurs below 2^28 slots
Low24(h) == h[1] + (256 * h[2]) + (65536 * h[3])

\* hash__hash57(hash) & ((m/16) - 1)
GroupIndex(hash, m) == BitAnd(Low24(hash__hash57(hash)), (m \div GroupWidth) - 1)

\* ------------------------------------------------------------------------
\* hash.h : the memory image
\* ------------------------------------------------------------------------
\* all ids any caller of the model passes as keys
AllKeys == 0..(IF MaxKey > NumIds - 1 THEN MaxKey ELSE NumIds - 1)

\* hash__hash of every key of the model, computed once
HashMemo == [k \in AllKeys |-> hash__hash(k)]

\* content of keys[] and values[] that hash__malloc leaves unwritten
Uninit == -1

\* sizeof(*(map)), the width of the caller's value type
ValSize == 8

\* the null handle: hash_size and hash_capacity read it as 0
NULL ==
  [size |-> 0, capacity |-> 0, val_size |-> 0,
   meta |-> [i \in {} |-> 0], keys |-> [i \in {} |-> 0], vals |-> [i \in {} |-> 0]]

hash_size(map) == IF map # NULL THEN map.size ELSE 0
hash_capacity(map) == IF map # NULL THEN map.capacity ELSE 0

hash_is_full(b) == BitAnd(b, 128) = 128
hash_is_free(b) == b = 0

\* hash__malloc followed by the memset and the header writes that
\* hash__init and hash__resize perform on the fresh block
NewImage(capacity, val_size, size) ==
  [size |-> size, capacity |-> capacity, val_size |-> val_size,
   meta |-> [i \in 0..(capacity - 1) |-> HASH__FREE],
   keys |-> [i \in 0..(capacity - 1) |-> Uninit],
   vals |-> [i \in 0..(capacity - 1) |-> Uninit]]

\* hash__init with the memset writing the Tombstone byte
hash__init_TombFilled(map, allocOk) ==
  IF map = NULL
  THEN IF allocOk
       THEN [NewImage(HASH__START_CAPACITY, ValSize, 0) EXCEPT
               !.meta = [i \in 0..(HASH__START_CAPACITY - 1) |-> HASH__TOMB]]
       ELSE map
  ELSE map

\* allocOk: whether the aligned allocation returns a block
hash__init(map, allocOk) ==
  IF map = NULL
  THEN IF allocOk THEN NewImage(HASH__START_CAPACITY, ValSize, 0) ELSE map
  ELSE map

SetMin(S) == CHOOSE x \in S : \A y \in S : x <= y

\* the slots of the group whose metadata is loaded at position i
Group(i) == i..(i + GroupWidth - 1)

\* ------------------------------------------------------------------------
\* hash.h : the probe engine
\* ------------------------------------------------------------------------
\* outcome of a probe loop that never leaves its for(;;)
Hang == -2

\* GetIdxStep with the Free test placed before the Match step
GetIdxStep_FreeFirst(match, free) ==
  IF free # {} THEN [ret |-> -1, idx |-> Uninit]
  ELSE IF match # {} THEN [ret |-> 1, idx |-> SetMin(match)]
  ELSE [ret |-> 0, idx |-> Uninit]

\* the Match step and the Free test of hash__get_idx on the group at i:
\* match and free are the slots of the group that compare equal to the
\* mask with the right key, and to zero
GetIdxStep(match, free) ==
  IF match # {} THEN [ret |-> 1, idx |-> SetMin(match)]
  ELSE IF free # {} THEN [ret |-> -1, idx |-> Uninit]
  ELSE [ret |-> 0, idx |-> Uninit]

\* the for(;;) of hash__get_idx from position i; seen are the positions
\* whose group neither matched nor held a Free byte.  The loop reads memory
\* it does not change, so coming back to a position repeats for ever.
RECURSIVE GetIdxLoop(_, _, _, _, _)
GetIdxLoop(map, key, mask, i, seen) ==
  LET step == GetIdxStep(
                {j \in Group(i) : map.meta[j] = mask /\ map.keys[j] = key},
                {j \in Group(i) : map.meta[j] = HASH__FREE})
  IN IF step.ret # 0 THEN step
     ELSE IF BitAnd(i + 16, map.capacity - 1) \in seen \cup {i}
     THEN [ret |-> Hang, idx |-> Uninit]
     ELSE GetIdxLoop(map, key, mask, BitAnd(i + 16, map.capacity - 1), seen \cup {i})

\* hash__get_idx once hash = hash__hash(key) is known
GetIdxHashed(map, key, hash) ==
  GetIdxLoop(map, key, hash__hash7(hash) + 128,
             GroupIndex(hash, hash_capacity(map)) * 16, {})

hash__get_idx(map, key) == GetIdxHashed(map, key, HashMemo[key])

\* FreeTombLoop returning the first slot of the home group untested
FreeTombLoop_Untested(map, i, seen) == i

\* the for(;;) of hash__get_freetombidx
RECURSIVE FreeTombLoop(_, _, _)
FreeTombLoop(map, i, seen) ==
  LET freetomb == {j \in Group(i) : BitAnd(map.meta[j], 128) = 0}
  IN IF freetomb # {} THEN SetMin(freetomb)
     ELSE IF BitAnd(i + 16, map.capacity - 1) \in seen \cup {i} THEN Hang
     ELSE FreeTombLoop(map, BitAnd(i + 16, map.capacity - 1), seen \cup {i})

hash__get_freetombidx(map, key) ==
  FreeTombLoop(map, GroupIndex(HashMemo[key], hash_capacity(map)) * 16, {})

\* ------------------------------------------------------------------------
\* hash.h : growth
\* ------------------------------------------------------------------------
\* while(!hash_is_free(nbase[idx])) idx = (idx + 1) & (capacity - 1)
RECURSIVE RehashProbe(_, _)
RehashProbe(nmap, idx) ==
  IF hash_is_free(nmap.meta[idx]) THEN idx
  ELSE RehashProbe(nmap, BitAnd(idx + 1, hash_capacity(nmap) - 1))

\* RehashCopy without the memcpy of the value
RehashCopy_DropsValue(map, nmap, i, idx) ==
  [nmap EXCEPT !.meta[idx] = map.meta[i],
               !.keys[idx] = map.keys[i]]

\* RehashCopy writing the bare Full mark 0x80 instead of the old byte
RehashCopy_BareMark(map, nmap, i, idx) ==
  [nmap EXCEPT !.meta[idx] = 128,
               !.keys[idx] = map.keys[i],
               !.vals[idx] = map.vals[i]]

\* the body of the if of hash__rehash: slot i of map goes to slot idx of nmap
RehashCopy(map, nmap, i, idx) ==
  [nmap EXCEPT !.meta[idx] = map.meta[i],
               !.keys[idx] = map.keys[i],
               !.vals[idx] = map.vals[i]]

\* RehashSlot copying every slot that is not Free, Tombstones included
RehashSlot_CopiesTombs(map, nmap, i) ==
  IF ~hash_is_free(map.meta[i])
  THEN RehashCopy(map, nmap, i,
         RehashProbe(nmap, GroupIndex(HashMemo[map.keys[i]], hash_capacity(nmap)) * 16))
  ELSE nmap

\* one pass of the for loop of hash__rehash, for index i
RehashSlot(map, nmap, i) ==
  IF hash_is_full(map.meta[i])
  THEN RehashCopy(map, nmap, i,
         RehashProbe(nmap, GroupIndex(HashMemo[map.keys[i]], hash_capacity(nmap)) * 16))
  ELSE nmap

\* the passes for the indices a..b in ascending order: the lower half is
\* computed to its image `left`, then the upper half starts from it
RECURSIVE RehashRange(_, _, _, _)
RehashRange(map, nmap, a, b) ==
  IF a > b THEN nmap
  ELSE IF a = b THEN RehashSlot(map, nmap, a)
  ELSE CHOOSE r \in {RehashRange(map, left, ((a + b) \div 2) + 1, b) :
                      left \in {RehashRange(map, nmap, a, (a + b) \div 2)}} : TRUE

\* the for loop of hash__rehash from index i on
RehashFrom(map, nmap, i) == RehashRange(map, nmap, i, hash_capacity(map) - 1)

hash__rehash(map, nmap) == RehashFrom(map, nmap, 0)

\* hash__resize with info->size left at zero
hash__resize_DropsSize(map, ncapacity, allocOk) ==
  IF allocOk
  THEN hash__rehash(map, NewImage(ncapacity, map.val_size, 0))
  ELSE map

\* the old image is released and the handle takes the new one; when the
\* allocation fails the handle keeps the old image
hash__resize(map, ncapacity, allocOk) ==
  IF allocOk
  THEN hash__rehash(map, NewImage(ncapacity, map.val_size, hash_size(map)))
  ELSE map

\* TrueCap with one shift too many
RECURSIVE TrueCap_Doubled(_, _)
TrueCap_Doubled(true_cap, cap) ==
  IF true_cap < cap THEN TrueCap_Doubled(true_cap * 2, cap) ELSE true_cap * 2

\* the while loop of hash_reserve: true_cap <<= 1 until true_cap >= cap
RECURSIVE TrueCap(_, _)
TrueCap(true_cap, cap) ==
  IF true_cap < cap THEN TrueCap(true_cap * 2, cap) ELSE true_cap

\* ------------------------------------------------------------------------
\* hash.h : the public operations, as functions of the image
\* ------------------------------------------------------------------------
\* hash_get returns NULL
NullPtr == -1

\* the return of hash_get, given the result r of hash__get_idx: the pointer
\* (char *)(map) + val_size * idx is modelled by idx
GetReturn(r) ==
  IF r.ret = 1 THEN r.idx
  ELSE IF r.ret = Hang THEN Hang
  ELSE NullPtr

\* hash_get; Hang when hash__get_idx never returns
hash_get(map, key) == GetReturn(hash__get_idx(map, key))

\* the value a pointer returned by hash_get points at
Deref(map, ptr) == map.vals[ptr]

\* the if of hash_del, given the result r of hash__get_idx, without size--
DelAt_KeepsSize(map, r, free_val) ==
  IF r.ret = 1
  THEN [map |-> [map EXCEPT !.meta[r.idx] = HASH__TOMB],
        status |-> "ok", ret |-> 1,
        released |-> IF free_val THEN map.vals[r.idx] ELSE Uninit]
  ELSE IF r.ret = Hang
  THEN [map |-> map, status |-> "hung", ret |-> 0, released |-> Uninit]
  ELSE [map |-> map, status |-> "ok", ret |-> 0, released |-> Uninit]

\* the if of hash_del, marking the slot Free instead of Tombstone
DelAt_MarksFree(map, r, free_val) ==
  IF r.ret = 1
  THEN [map |-> [map EXCEPT !.meta[r.idx] = HASH__FREE, !.size = map.size - 1],
        status |-> "ok", ret |-> 1,
        released |-> IF free_val THEN map.vals[r.idx] ELSE Uninit]
  ELSE IF r.ret = Hang
  THEN [map |-> map, status |-> "hung", ret |-> 0, released |-> Uninit]
  ELSE [map |-> map, status |-> "ok", ret |-> 0, released |-> Uninit]

\* the if of hash_del, given the result r of hash__get_idx: ret is 1 for
\* true and 0 for false; released is the value handed to free() when
\* free_val is set
DelAt(map, r, free_val) ==
  IF r.ret = 1
  THEN [map |-> [map EXCEPT !.meta[r.idx] = HASH__TOMB, !.size = map.size - 1],
        status |-> "ok", ret |-> 1,
        released |-> IF free_val THEN map.vals[r.idx] ELSE Uninit]
  ELSE IF r.ret = Hang
  THEN [map |-> map, status |-> "hung", ret |-> 0, released |-> Uninit]
  ELSE [map |-> map, status |-> "ok", ret |-> 0, released |-> Uninit]

hash_del(map, key, free_val) == DelAt(map, hash__get_idx(map, key), free_val)

\* the else branch of hash_put: the new entry goes to slot idx
PutInsert(map, k, val, idx) ==
  IF idx = Hang THEN [map |-> map, status |-> "hung"]
  ELSE [map |-> [map EXCEPT !.meta[idx] = hash__hash7(HashMemo[k]) + 128,
                            !.keys[idx] = k,
                            !.vals[idx] = val,
                            !.size = map.size + 1],
        status |-> "ok"]

\* PutStore with the overwrite of a key that is present left out
PutStore_KeepsOld(map, k, val, r) ==
  IF r.ret = Hang THEN [map |-> map, status |-> "hung"]
  ELSE IF r.ret = 1 THEN [map |-> map, status |-> "ok"]
  ELSE PutInsert(map, k, val, hash__get_freetombidx(map, k))

\* PutStore counting the overwrite of a stored key as a new entry
PutStore_CountsOverwrite(map, k, val, r) ==
  IF r.ret = Hang THEN [map |-> map, status |-> "hung"]
  ELSE IF r.ret = 1
  THEN [map |-> [map EXCEPT !.vals[r.idx] = val, !.size = map.size + 1], status |-> "ok"]
  ELSE PutInsert(map, k, val, hash__get_freetombidx(map, k))

\* the if/else of hash_put on a non-null image, given the result r of
\* hash__get_idx: overwrite on a hit, insert on a miss
PutStore(map, k, val, r) ==
  IF r.ret = Hang THEN [map |-> map, status |-> "hung"]
  ELSE IF r.ret = 1 THEN [map |-> [map EXCEPT !.vals[r.idx] = val], status |-> "ok"]
  ELSE PutInsert(map, k, val, hash__get_freetombidx(map, k))

\* PutGrow without the load-factor check
PutGrow_Never(s, growOk) == s

\* PutGrow growing only once size is above (capacity / 4) * 3
PutGrow_AboveThreshold(s, growOk) ==
  IF s.status # "ok" THEN s
  ELSE IF hash_size(s.map) > (hash_capacity(s.map) \div 4) * 3
  THEN [map |-> hash__resize(s.map, hash_capacity(s.map) * 2, growOk), status |-> "ok"]
  ELSE s

\* PutGrow growing to four times the capacity
PutGrow_Quadruples(s, growOk) ==
  IF s.status # "ok" THEN s
  ELSE IF hash_size(s.map) >= (hash_capacity(s.map) \div 4) * 3
  THEN [map |-> hash__resize(s.map, hash_capacity(s.map) * 4, growOk), status |-> "ok"]
  ELSE s

\* the load-factor check that ends hash_put; s is the result of PutStore
PutGrow(s, growOk) ==
  IF s.status # "ok" THEN s
  ELSE IF hash_size(s.map) >= (hash_capacity(s.map) \div 4) * 3
  THEN [map |-> hash__resize(s.map, hash_capacity(s.map) * 2, growOk), status |-> "ok"]
  ELSE s

\* PutInit with the load-factor check and the growth before the pair is
\* written, the new pair going to the image that was released
PutInit_GrowsThenWritesOld(m0, key, val, growOk) ==
  IF m0 = NULL THEN [map |-> m0, status |-> "fault"]
  ELSE IF PutStore(m0, key, val, hash__get_idx(m0, key)).status # "ok"
  THEN PutStore(m0, key, val, hash__get_idx(m0, key))
  ELSE PutGrow([map |-> [m0 EXCEPT !.size =
                           PutStore(m0, key, val, hash__get_idx(m0, key)).map.size],
                status |-> "ok"], growOk)

\* hash_put after its hash__init; a null m0 means the allocation failed,
\* and the macro goes on to read the header through the null handle
PutInit(m0, key, val, growOk) ==
  IF m0 = NULL THEN [map |-> m0, status |-> "fault"]
  ELSE PutGrow(PutStore(m0, key, val, hash__get_idx(m0, key)), growOk)

\* hash_put; initOk and growOk tell whether the allocation of hash__init
\* and of hash__resize succeed
hash_put(map, key, val, initOk, growOk) ==
  PutInit(hash__init(map, initOk), key, val, growOk)

\* ReserveInit resizing also when cap equals the capacity
ReserveInit_ResizesAtEqual(m0, cap, growOk) ==
  IF cap >= hash_capacity(m0)
  THEN IF m0 = NULL THEN [map |-> m0, status |-> "fault"]
       ELSE [map |-> hash__resize(m0, TrueCap(1, cap), growOk), status |-> "ok"]
  ELSE [map |-> m0, status |-> "ok"]

\* hash_reserve after its hash__init; a null m0 means the allocation
\* failed, and hash__resize reads val_size through the null handle
ReserveInit(m0, cap, growOk) ==
  IF cap > hash_capacity(m0)
  THEN IF m0 = NULL THEN [map |-> m0, status |-> "fault"]
       ELSE [map |-> hash__resize(m0, TrueCap(1, cap), growOk), status |-> "ok"]
  ELSE [map |-> m0, status |-> "ok"]

\* hash_reserve
hash_reserve(map, capacity, initOk, growOk) ==
  ReserveInit(hash__init(map, initOk), capacity, growOk)

\* hash_free: the image is handed to the aligned free.  For the null handle
\* the macro computes NULL - sizeof(hash__info_t) and hands that to the
\* aligned free, which is no block of the allocator ("fault")
hash_free(map) == IF map = NULL THEN "fault" ELSE "ok"

\* ------------------------------------------------------------------------
\* hashint.h : the open-addressing table with linear probing.  The image
\* | keys[] | metadata | values[] | is a record; slot i of the code is the
\* element i + 1 of keys and vals.
\* ------------------------------------------------------------------------
HASHI_START_CAPACITY == 8
\* UINT64_MAX, the content of a key slot that holds no key; the keys of the
\* model are small naturals, and the all-ones word is written -1
HASHI_EMPTY == -1
HASHI_WORD == 64
\* 11400714819323198485ULL = 0x9E3779B97F4A7C15
HASHI_A == <<21, 124, 74, 127, 185, 121, 55, 158>>
\* static uint64_t hashi_seed = 0x12345678ABCDEF00ULL
hashi_seed == <<0, 239, 205, 171, 120, 86, 52, 18>>

RECURSIVE AddFrom(_, _, _, _)
AddFrom(a, b, i, carry) ==
  IF i > 8 THEN <<>>
  ELSE <<(a[i] + b[i] + carry) % 256>>
         \o AddFrom(a, b, i + 1, (a[i] + b[i] + carry) \div 256)

\* a + b  (mod 2^64)
Add64(a, b) == AddFrom(a, b, 1, 0)

\* (x >> 32) + (x << 32): the two halves have no bit in common
hashi__swap(x) == [i \in 1..8 |-> IF i <= 4 THEN x[i + 4] ELSE x[i - 4]]

hashi__f(k) ==
  hashi__swap(Mul64(k, Add64(Mul64(U64(2), Add64(k, U64(HASHI_WORD))), HASHI_A)))

hashi__hash(k) == hashi__f(hashi__f(hashi__f(hashi__f(Add64(U64(k), hashi_seed)))))

\* the keys the callers of hashint.h use
NumHashiKeys == 4
HashiKeys == 0..(NumHashiKeys - 1)

\* the ids that the queue caller of hashint.h stores
NumHashiIds == 14
HashiIds == 0..(NumHashiIds - 1)

\* keys that crowd the end of the table of 8 slots: the keys up to
\* MaxWrapKey whose home slot there is 4, 5 or 6
MaxWrapKey == 8
WrapKeys ==
  {k \in 0..MaxWrapKey : Low24(hashi__hash(k)) % HASHI_START_CAPACITY \in 4..6}

\* the low 24 bits of hashi__hash of every key of the model, computed once;
\* they decide hash & (m - 1) and hash % m for every capacity m <= 2^24
HashiMemo == [k \in HashiKeys \cup WrapKeys \cup HashiIds |-> Low24(hashi__hash(k))]

\* the null table
NullTable == [size |-> 0, capacity |-> 0, keys |-> <<>>, vals |-> <<>>]

hashi_size(table) == IF table = NullTable THEN 0 ELSE table.size
hashi_capacity(table) == IF table = NullTable THEN 0 ELSE table.capacity

\* the image of capacity m with every key slot EMPTY (memset 0xFF)
NewTable(m, size) ==
  [size |-> size, capacity |-> m,
   keys |-> [i \in 1..m |-> HASHI_EMPTY], vals |-> [i \in 1..m |-> Uninit]]

\* hashi__alloc
hashi__alloc(table) == NewTable(HASHI_START_CAPACITY, 0)

\* while (base[idx] != HASHI_EMPTY && base[idx] != k) idx = (idx + 1) & (m - 1);
\* after n steps that met neither, every slot was inspected and the loop
\* goes round for ever (Hang)
RECURSIVE HashiProbe(_, _, _, _)
HashiProbe(t, k, idx, n) ==
  IF n = t.capacity THEN Hang
  ELSE IF t.keys[idx + 1] # HASHI_EMPTY /\ t.keys[idx + 1] # k
  THEN HashiProbe(t, k, (idx + 1) % t.capacity, n + 1)
  ELSE idx

\* hashi__rehash from slot i of table on: each key goes to the first EMPTY
\* slot from its home in the new table, with its value
RECURSIVE HashiRehashFrom(_, _, _)
HashiRehashFrom(table, nt, i) ==
  IF i >= table.capacity THEN nt
  ELSE IF table.keys[i + 1] = HASHI_EMPTY THEN HashiRehashFrom(table, nt, i + 1)
  ELSE LET key == table.keys[i + 1]
           new_idx == HashiProbe(nt, HASHI_EMPTY, HashiMemo[key] % nt.capacity, 0)
       IN HashiRehashFrom(table,
            [nt EXCEPT !.keys[new_idx + 1] = key,
                       !.vals[new_idx + 1] = table.vals[i + 1]],
            i + 1)

hashi__rehash(table, new_table) == HashiRehashFrom(table, new_table, 0)

\* hashi__realloc: the image of twice the capacity, the size copied
hashi__realloc(table) ==
  hashi__rehash(table, NewTable(2 * hashi_capacity(table), hashi_size(table)))

\* hashi_put after its allocation and growth: probe, count, write
HashiStore(t, k, val) ==
  LET idx == HashiProbe(t, k, HashiMemo[k] % t.capacity, 0)
  IN IF idx = Hang THEN [table |-> t, status |-> "hung"]
     ELSE [table |->
             [t EXCEPT !.size = IF t.keys[idx + 1] = HASHI_EMPTY THEN @ + 1 ELSE @,
                       !.keys[idx + 1] = k,
                       !.vals[idx + 1] = val],
           status |-> "ok"]

\* HashiGrow without the growth
HashiGrow_Never(t) == t

\* hashi_put after its allocation: the growth comes before the insert
HashiGrow(t) ==
  IF hashi_size(t) >= (hashi_capacity(t) \div 4) * 3 THEN hashi__realloc(t) ELSE t

\* HashiKeyOf taking UINT64_MAX for key 1
HashiKeyOf_One(key) == IF key = HASHI_EMPTY THEN 1 ELSE key

\* if (k == HASHI_EMPTY) k = 0;
HashiKeyOf(key) == IF key = HASHI_EMPTY THEN 0 ELSE key

\* hashi_put
hashi_put(table, key, val) ==
  HashiStore(HashiGrow(IF table = NullTable THEN hashi__alloc(table) ELSE table),
             HashiKeyOf(key), val)

\* hashi__get_slot: hashi__hash(key) % hashi_capacity(table) divides by
\* zero for the null table ("fault")
hashi__get_slot(table, key) ==
  IF hashi_capacity(table) = 0
  THEN [status |-> "fault", found |-> FALSE, slot |-> 0]
  ELSE LET k == HashiKeyOf(key)
           idx == HashiProbe(table, k, HashiMemo[k] % hashi_capacity(table), 0)
       IN IF idx = Hang THEN [status |-> "hung", found |-> FALSE, slot |-> 0]
          ELSE [status |-> "ok", found |-> table.keys[idx + 1] = k, slot |-> idx]

\* hashi_get: the value the returned pointer points at, or NullPtr
hashi_get(table, key) ==
  LET s == hashi__get_slot(table, key)
  IN [status |-> s.status,
      ret |-> IF s.status = "ok" /\ s.found THEN table.vals[s.slot + 1] ELSE NullPtr]

\* hashi__hash_inv: the distance of slot idx from the home slot of key
hashi__hash_inv(table, key, idx) ==
  (idx + table.capacity - (HashiMemo[key] % table.capacity)) % table.capacity

\* the do-while of hashi_del: the next slot whose key may move to idx, or
\* HASHI_EMPTY when an EMPTY slot is met first
RECURSIVE HashiScan(_, _, _)
HashiScan(t, idx, new_idx) ==
  LET n == (new_idx + 1) % t.capacity
      new_key == t.keys[n + 1]
  IN IF new_key = HASHI_EMPTY THEN HASHI_EMPTY
     ELSE IF hashi__hash_inv(t, new_key, n) < hashi__hash_inv(t, new_key, idx)
     THEN HashiScan(t, idx, n)
     ELSE n

\* HashiShift without the back-shift: the slot is emptied and nothing moves
HashiShift_NoShift(t, idx) == [t EXCEPT !.keys[idx + 1] = HASHI_EMPTY]

\* the for (;;) of hashi_del from slot idx
RECURSIVE HashiShift(_, _)
HashiShift(t, idx) ==
  LET e == [t EXCEPT !.keys[idx + 1] = HASHI_EMPTY]
      n == HashiScan(e, idx, idx)
  IN IF n = HASHI_EMPTY THEN e
     ELSE HashiShift([e EXCEPT !.keys[idx + 1] = e.keys[n + 1],
                               !.vals[idx + 1] = e.vals[n + 1]], n)

\* hashi_del: ret is what the function returns
hashi_del(table, key) ==
  LET s == hashi__get_slot(table, key)
  IN IF s.status # "ok" THEN [table |-> table, status |-> s.status, ret |-> FALSE]
     ELSE IF s.found
     THEN [table |-> HashiShift(table, s.slot), status |-> "ok", ret |-> TRUE]
     ELSE [table |-> table, status |-> "ok", ret |-> FALSE]

\* ------------------------------------------------------------------------
\* vectors.h (src/chibilibs) : the growable array.  The block
\* | metadata | elements[] | is a record; element i of the code is the
\* element i + 1 of elems, and elems has as many places as the block was
\* allocated for.
\* ------------------------------------------------------------------------
V_START_CAPACITY == 8

\* the null vector
NullVec == [null |-> TRUE, capacity |-> 0, size |-> 0, elems |-> <<>>]

v_capacity(vec) == IF vec.null THEN 0 ELSE vec.capacity
v_size(vec) == IF vec.null THEN 0 ELSE vec.size

\* v__alloc: a null vector gets a block for V_START_CAPACITY elements,
\* unless malloc fails
v__alloc(vec, allocOk) ==
  IF vec.null /\ allocOk
  THEN [null |-> FALSE, capacity |-> V_START_CAPACITY, size |-> 0,
        elems |-> [i \in 1..V_START_CAPACITY |-> Uninit]]
  ELSE vec

\* realloc of the block to n elements: the content is kept up to the
\* shorter of the two lengths
VecResized(vec, n) ==
  [i \in 1..n |-> IF i <= Len(vec.elems) THEN vec.elems[i] ELSE Uninit]

\* v__double_capacity of a vector that has a block: realloc to twice the
\* capacity and capacity *= 2, or nothing when realloc fails
v__double_capacity(vec, growOk) ==
  IF growOk
  THEN [vec EXCEPT !.capacity = 2 * @, !.elems = VecResized(vec, 2 * vec.capacity)]
  ELSE vec

\* v__alloc and the test for a full vector that v_push_back and v_insert
\* start with.  While the vector is still null the test holds (0 - 0 == 0)
\* and v__double_capacity hands NULL - sizeof(v__metadata_t) to realloc.
VecRoom(vec, allocOk, growOk) ==
  LET v0 == v__alloc(vec, allocOk)
  IN IF v_capacity(v0) - v_size(v0) = 0 /\ ~v0.null
     THEN v__double_capacity(v0, growOk)
     ELSE v0

\* (vec)[size++] = (val) that loses its element
VecWrite_DropsElement(v, val) ==
  IF v.null THEN [vec |-> v, status |-> "fault"]
  ELSE IF v.size >= Len(v.elems)
  THEN [vec |-> [v EXCEPT !.size = @ + 1], status |-> "fault"]
  ELSE [vec |-> [v EXCEPT !.size = @ + 1], status |-> "ok"]

\* (vec)[v__get_metadata(vec)->size++] = (val): through a null vector, or at
\* an index the block has no place for, the write is outside every block
\* ("fault"); the size is incremented all the same
VecWrite(v, val) ==
  IF v.null THEN [vec |-> v, status |-> "fault"]
  ELSE IF v.size >= Len(v.elems)
  THEN [vec |-> [v EXCEPT !.size = @ + 1], status |-> "fault"]
  ELSE [vec |-> [v EXCEPT !.elems[v.size + 1] = val, !.size = @ + 1],
        status |-> "ok"]

\* v_push_back
v_push_back(vec, val, allocOk, growOk) == VecWrite(VecRoom(vec, allocOk, growOk), val)

\* v_pop_back
v_pop_back(vec) == IF v_size(vec) > 0 THEN [vec EXCEPT !.size = @ - 1] ELSE vec

\* v_shrink_to_fit: realloc to the size and capacity = size, or nothing
\* when realloc fails; the null vector hands NULL - sizeof(v__metadata_t)
\* to realloc ("fault")
v_shrink_to_fit(vec, allocOk) ==
  IF vec.null THEN [vec |-> vec, status |-> "fault"]
  ELSE IF allocOk
  THEN [vec |-> [vec EXCEPT !.capacity = vec.size, !.elems = VecResized(vec, vec.size)],
        status |-> "ok"]
  ELSE [vec |-> vec, status |-> "ok"]

\* the elements after for (j = v_size(vec); j > i; j--) vec[j] = vec[j - 1];
\* and vec[i] = val
VecShifted(v, i, val) ==
  [j \in 1..Len(v.elems) |->
     IF j = i + 1 THEN val
     ELSE IF j > i + 1 /\ j <= v.size + 1 THEN v.elems[j - 1]
     ELSE v.elems[j]]

\* v_insert for i <= v_size(vec): the shift writes vec[size] when i < size
v_insert(vec, i, val, allocOk, growOk) ==
  LET v == VecRoom(vec, allocOk, growOk)
  IN IF v.null THEN [vec |-> v, status |-> "fault"]
     ELSE IF v.size >= Len(v.elems)
     THEN [vec |-> [v EXCEPT !.size = @ + 1], status |-> "fault"]
     ELSE [vec |-> [v EXCEPT !.elems = VecShifted(v, i, val), !.size = @ + 1],
           status |-> "ok"]

\* v_remove for i < v_size(vec):
\* for (j = i + 1; j < v_size(vec); j++) vec[j - 1] = vec[j]; size--
v_remove(vec, i) ==
  [vec EXCEPT !.elems = [j \in 1..Len(vec.elems) |->
                           IF j >= i + 1 /\ j < vec.size THEN vec.elems[j + 1]
                           ELSE vec.elems[j]],
              !.size = @ - 1]

\* v_pop_front
v_pop_front(vec) == v_remove(vec, 0)

\* ------------------------------------------------------------------------
\* sorting.h (src/chibilibs) : s_insertion and s_selection on an array of
\* dim elements; element i of the code is the element i + 1 of the sequence.
\* A size_t is a natural number, or SIZE_MAX, the value below 0 and above
\* every other.
\* ------------------------------------------------------------------------
\* 2^64 - 1, written -1
SIZE_MAX == -1

\* --j and ++j on a size_t
SizeDec(j) == IF j = 0 THEN SIZE_MAX ELSE j - 1
SizeInc(j) == IF j = SIZE_MAX THEN 0 ELSE j + 1

\* a < b on size_t
SizeLess(a, b) == a # SIZE_MAX /\ (b = SIZE_MAX \/ a < b)

\* the comparators the callers pass as `order`: increasing, decreasing,
\* increasing by halves (a strict weak order with ties), and "properly
\* divides" (a strict partial order that is not weak)
Orders == {"less", "greater", "half", "divides"}

\* (*order)(lhs, rhs)
Order(ord, lhs, rhs) ==
  CASE ord = "less" -> lhs < rhs
    [] ord = "greater" -> rhs < lhs
    [] ord = "half" -> (lhs \div 2) < (rhs \div 2)
    [] ord = "divides" -> lhs # rhs /\ rhs % lhs = 0

\* the while loop of s_insertion that never moves the key to the front
RECURSIVE InsertKey_StopsAtOne(_, _, _, _)
InsertKey_StopsAtOne(a, key, j, ord) ==
  IF j # 0 /\ Order(ord, key, a[j + 1])
  THEN InsertKey_StopsAtOne([a EXCEPT ![j + 2] = a[j + 1]], key, SizeDec(j), ord)
  ELSE [a EXCEPT ![SizeInc(j) + 1] = key]

\* the while loop of s_insertion and the copy of the key after it
RECURSIVE InsertKey(_, _, _, _)
InsertKey(a, key, j, ord) ==
  IF j # SIZE_MAX /\ Order(ord, key, a[j + 1])
  THEN InsertKey([a EXCEPT ![j + 2] = a[j + 1]], key, SizeDec(j), ord)
  ELSE [a EXCEPT ![SizeInc(j) + 1] = key]

\* the for loop of s_insertion from i on
RECURSIVE InsertFrom(_, _, _, _)
InsertFrom(a, i, dim, ord) ==
  IF SizeLess(i, dim)
  THEN InsertFrom(InsertKey(a, a[i + 1], i - 1, ord), i + 1, dim, ord)
  ELSE a

\* s_insertion: a is the array afterwards, ret the value returned
s_insertion(input, dim, ord, allocOk) ==
  IF ~allocOk THEN [a |-> input, ret |-> -1, status |-> "ok"]
  ELSE [a |-> InsertFrom(input, 1, dim, ord), ret |-> dim, status |-> "ok"]

\* the inner for loop of s_selection from j on
RECURSIVE SelectMin(_, _, _, _, _)
SelectMin(a, min_idx, j, dim, ord) ==
  IF SizeLess(j, dim)
  THEN SelectMin(a, IF Order(ord, a[j + 1], a[min_idx + 1]) THEN j ELSE min_idx,
                 j + 1, dim, ord)
  ELSE min_idx

\* the three copies that exchange elements i and min_idx
SelectSwap(a, i, min_idx) == [a EXCEPT ![min_idx + 1] = a[i + 1], ![i + 1] = a[min_idx + 1]]

\* the outer for loop of s_selection from i on; its bound dim - 1 is
\* computed on size_t.  An element at an index >= dim is outside the
\* array ("fault")
RECURSIVE SelectFrom(_, _, _, _)
SelectFrom(a, i, dim, ord) ==
  IF SizeLess(i, SizeDec(dim))
  THEN IF ~SizeLess(i, dim) THEN [a |-> a, status |-> "fault"]
       ELSE SelectFrom(SelectSwap(a, i, SelectMin(a, i, i + 1, dim, ord)),
                       i + 1, dim, ord)
  ELSE [a |-> a, status |-> "ok"]

\* s_selection: a is the array afterwards, ret the value returned
s_selection(input, dim, ord, allocOk) ==
  IF ~allocOk THEN [a |-> input, ret |-> -1, status |-> "ok"]
  ELSE LET r == SelectFrom(input, 0, dim, ord)
       IN [a |-> r.a, ret |-> dim, status |-> r.status]

\* ------------------------------------------------------------------------
\* The program state
\* ------------------------------------------------------------------------
VARIABLES
  map,     \* the caller's handle: the image it points at, or NULL
  pc,      \* "ready", or "hung" in a probe loop, or "fault" (memory is read,
           \* written or released through the null handle), or "freed"
  last,    \* the operation performed last and what it returned
  model,   \* the pairs put and not deleted since, as a function key -> value
  lo, hi,  \* queue-like caller: oldest id still stored, next fresh id
  log,     \* the calls of the allocator made for `map`, as SpecHeap records them
  table,   \* hashint.h: the caller's table, the image it points at or NULL
  vec,     \* vectors.h: the caller's vector, the block it points at or NULL
  input    \* sorting.h: the array handed to the sort routines

vars == <<map, pc, last, model, lo, hi, log, table, vec, input>>

\* the state of the containers other than the SwissTable map
others == <<table, vec, input>>

Keys == 0..MaxKey
Values == 1..MaxVal
ReserveArgs == {n \in 0..MaxReserve : n % GroupWidth \in {0, 1}}

NoOp == [op |-> "none", key |-> 0, val |-> 0, status |-> "ok", ret |-> 0]

Init ==
  /\ map = NULL
  /\ pc = "ready"
  /\ last = NoOp
  /\ model = [k \in {} |-> 0]
  /\ lo = 0
  /\ hi = 0
  /\ log = <<>>
  /\ table = NullTable
  /\ vec = NullVec
  /\ input = <<>>

PcOf(status) == IF status = "ok" THEN "ready" ELSE status

ModelPut(f, k, v) == [x \in (DOMAIN f) \cup {k} |-> IF x = k THEN v ELSE f[x]]
ModelDel(f, k) == [x \in (DOMAIN f) \ {k} |-> f[x]]

\* the caller's state after hash_put(map, k, v) gave r
PutDone(k, v, r) ==
  /\ map' = r.map
  /\ pc' = PcOf(r.status)
  /\ last' = [op |-> "put", key |-> k, val |-> v, status |-> r.status, ret |-> 0]
  /\ model' = IF r.status = "ok" THEN ModelPut(model, k, v) ELSE model
  /\ UNCHANGED others

\* hash_put(map, k, v)
DoPut(k, v) ==
  /\ pc = "ready"
  /\ PutDone(k, v, hash_put(map, k, v, TRUE, TRUE))
  /\ UNCHANGED log

\* hash_put(map, k, v) with an allocator that may fail
DoPutAlloc(k, v, initOk, growOk) ==
  /\ pc = "ready"
  /\ PutDone(k, v, hash_put(map, k, v, initOk, growOk))
  /\ UNCHANGED log

\* the caller's state after p = hash_get(map, k): last.ret is p and
\* last.val is *p
GetDone(k, p) ==
  /\ pc' = IF p = Hang THEN "hung" ELSE "ready"
  /\ last' = [op |-> "get", key |-> k,
              val |-> IF p \in {Hang, NullPtr} THEN 0 ELSE Deref(map, p),
              status |-> IF p = Hang THEN "hung" ELSE "ok",
              ret |-> p]
  /\ UNCHANGED others

\* an operation that reads the header through the null handle
NullRead(op, k) ==
  /\ pc' = "fault"
  /\ last' = [op |-> op, key |-> k, val |-> 0, status |-> "fault", ret |-> 0]
  /\ UNCHANGED others

\* DoGet with a hash_get that marks the slot it finds as Tombstone
DoGet_MarksTomb(k) ==
  /\ pc = "ready"
  /\ IF map = NULL
     THEN NullRead("get", k) /\ UNCHANGED map
     ELSE /\ GetDone(k, hash_get(map, k))
          /\ map' = IF hash_get(map, k) \in {Hang, NullPtr} THEN map
                    ELSE [map EXCEPT !.meta[hash_get(map, k)] = HASH__TOMB]
  /\ UNCHANGED <<model, log>>

\* p = hash_get(map, k)
DoGet(k) ==
  /\ pc = "ready"
  /\ IF map = NULL THEN NullRead("get", k) ELSE GetDone(k, hash_get(map, k))
  /\ UNCHANGED <<map, model, log>>

\* the caller's state after hash_del(map, k, free_val) gave r; last.val is
\* the value handed to free()
DelDone(k, r) ==
  /\ map' = r.map
  /\ pc' = PcOf(r.status)
  /\ last' = [op |-> "del", key |-> k, val |-> r.released,
              status |-> r.status, ret |-> r.ret]
  /\ model' = IF r.ret = 1 THEN ModelDel(model, k) ELSE model
  /\ UNCHANGED others

\* hash_del(map, k, free_val)
DoDel(k, free_val) ==
  /\ pc = "ready"
  /\ IF map = NULL
     THEN NullRead("del", k) /\ UNCHANGED <<map, model>>
     ELSE DelDone(k, hash_del(map, k, free_val))
  /\ UNCHANGED log

\* the caller's state after hash_reserve(map, n) gave r
ReserveDone(n, r) ==
  /\ map' = r.map
  /\ pc' = PcOf(r.status)
  /\ last' = [op |-> "reserve", key |-> n, val |-> 0, status |-> r.status, ret |-> 0]
  /\ UNCHANGED others

\* hash_reserve(map, n)
DoReserve(n) ==
  /\ pc = "ready"
  /\ ReserveDone(n, hash_reserve(map, n, TRUE, TRUE))
  /\ UNCHANGED <<model, log>>

\* hash_reserve(map, n) with an allocator that may fail
DoReserveAlloc(n, initOk, growOk) ==
  /\ pc = "ready"
  /\ ReserveDone(n, hash_reserve(map, n, initOk, growOk))
  /\ UNCHANGED <<model, log>>

\* the caller's state after hash_free(map): the handle keeps its value and
\* is not used again
FreeDone(status) ==
  /\ pc' = IF status = "ok" THEN "freed" ELSE status
  /\ last' = [op |-> "free", key |-> 0, val |-> 0, status |-> status, ret |-> 0]
  /\ UNCHANGED others

\* hash_free(map)
DoFree ==
  /\ pc = "ready"
  /\ FreeDone(hash_free(map))
  /\ UNCHANGED <<map, model, log>>

\* ------------------------------------------------------------------------
\* Spec: a caller that performs any operation on a few keys
\* ------------------------------------------------------------------------
Put(k, v) == DoPut(k, v) /\ UNCHANGED <<lo, hi>>
Get(k) == DoGet(k) /\ UNCHANGED <<lo, hi>>
Del(k, free_val) == DoDel(k, free_val) /\ UNCHANGED <<lo, hi>>
Reserve(n) == DoReserve(n) /\ UNCHANGED <<lo, hi>>

Next ==
  \/ \E k \in Keys, v \in Values : Put(k, v)
  \/ \E k \in Keys : Get(k)
  \/ \E k \in Keys, f \in BOOLEAN : Del(k, f)
  \/ \E n \in ReserveArgs : Reserve(n)

Spec == Init /\ [][Next]_vars

\* ------------------------------------------------------------------------
\* Callers that use the map as a queue over a stream of keys.  The keys
\* Stream[lo+1..hi] are stored; Stream[hi+1] is the next fresh key and
\* Stream[lo] the key deleted last.  Each key k is stored with value k*10.
\* ------------------------------------------------------------------------
ValueOf(k) == k * 10

RECURSIVE SortedSeq(_)
SortedSeq(S) == IF S = {} THEN <<>> ELSE <<SetMin(S)>> \o SortedSeq(S \ {SetMin(S)})

\* the keys next to the two ends of the queue
EndKeys(Stream) == {Stream[i] : i \in {lo, lo + 1, hi, hi + 1} \cap DOMAIN Stream}

\* reserve before the first put
QReserve(n) ==
  /\ map = NULL
  /\ DoReserve(n)
  /\ UNCHANGED <<lo, hi>>

\* store the next fresh key while fewer than Window keys are stored
QPut(Stream, Window) ==
  /\ hi < Len(Stream)
  /\ hi - lo < Window
  /\ DoPut(Stream[hi + 1], ValueOf(Stream[hi + 1]))
  /\ hi' = IF pc' = "ready" THEN hi + 1 ELSE hi
  /\ UNCHANGED lo

\* store a key again that is stored already
QReput(k) ==
  /\ k \in DOMAIN model
  /\ DoPut(k, ValueOf(k))
  /\ UNCHANGED <<lo, hi>>

\* delete the oldest key once at least MinStored keys are stored
QDel(Stream, MinStored) ==
  /\ hi - lo >= MinStored
  /\ hi > lo
  /\ DoDel(Stream[lo + 1], FALSE)
  /\ lo' = IF pc' = "ready" THEN lo + 1 ELSE lo
  /\ UNCHANGED hi

\* delete a key that is not stored
QDelAbsent(k) ==
  /\ k \notin DOMAIN model
  /\ DoDel(k, FALSE)
  /\ UNCHANGED <<lo, hi>>

QGet(k) == DoGet(k) /\ UNCHANGED <<lo, hi>>

\* ------------------------------------------------------------------------
\* SpecChurn: the queue caller over the ascending ids 0, 1, 2, ...; it
\* deletes the oldest id whenever ChurnWindow ids are stored.
\* ------------------------------------------------------------------------
AscendingIds == [i \in 1..NumIds |-> i - 1]

ChurnReserve(n) == QReserve(n)
ChurnPut == QPut(AscendingIds, ChurnWindow)
ChurnReput(k) == QReput(k)
ChurnDel == QDel(AscendingIds, ChurnWindow)
ChurnDelAbsent(k) == QDelAbsent(k)
ChurnGet(k) == QGet(k)

NextChurn ==
  \/ \E n \in ReserveArgs : ChurnReserve(n)
  \/ ChurnPut
  \/ \E k \in EndKeys(AscendingIds) : ChurnReput(k)
  \/ ChurnDel
  \/ \E k \in EndKeys(AscendingIds) : ChurnDelAbsent(k)
  \/ \E k \in EndKeys(AscendingIds) : ChurnGet(k)

SpecChurn == Init /\ [][NextChurn]_vars

\* ------------------------------------------------------------------------
\* SpecCollide: the queue caller over keys whose hashes agree in the two
\* low bits, so that they share a home group up to capacity 64.  It stores
\* up to CollideWindow keys and may delete the oldest one once
\* CollideMin keys are stored.
\* ------------------------------------------------------------------------
CollidingKeys ==
  SubSeq(SortedSeq({k \in AllKeys : GroupIndex(HashMemo[k], 4 * GroupWidth) = 0}),
         1, NumCollide)

CollideReserve(n) == QReserve(n)
CollidePut == QPut(CollidingKeys, CollideWindow)
CollideReput(k) == QReput(k)
CollideDel == QDel(CollidingKeys, CollideMin)
CollideDelAbsent(k) == QDelAbsent(k)
CollideGet(k) == QGet(k)

NextCollide ==
  \/ \E n \in ReserveArgs : CollideReserve(n)
  \/ CollidePut
  \/ \E k \in EndKeys(CollidingKeys) : CollideReput(k)
  \/ CollideDel
  \/ \E k \in EndKeys(CollidingKeys) : CollideDelAbsent(k)
  \/ \E k \in EndKeys(CollidingKeys) : CollideGet(k)

SpecCollide == Init /\ [][NextCollide]_vars

\* ------------------------------------------------------------------------
\* SpecFill: the queue caller that only fills.  It stores the ids
\* 0 .. NumScratch-1 in ascending order and reads them back; when it has
\* reserved FillReserveArg slots first, it stores the ids 0 .. NumFill-1.
\* ------------------------------------------------------------------------
FillCount(m) == IF hash_capacity(m) >= FillReserveArg THEN NumFill ELSE NumScratch

FillReserve == QReserve(FillReserveArg)
FillPut == QPut(AscendingIds, FillCount(map))
FillGet(k) == QGet(k)

NextFill ==
  \/ FillReserve
  \/ FillPut
  \/ \E k \in EndKeys(AscendingIds) : FillGet(k)

SpecFill == Init /\ [][NextFill]_vars

\* ------------------------------------------------------------------------
\* SpecFail: the queue caller with an allocator that may return NULL, in
\* hash__init and in hash__resize, and that releases the table at the end.
\* ------------------------------------------------------------------------
FailIds == [i \in 1..NumFailIds |-> i - 1]

\* reserve is called with nothing to do and with one slot more than the
\* start capacity
FailReserveArgs == {0, HASH__START_CAPACITY + 1}

FailReserve(n, initOk, growOk) ==
  /\ DoReserveAlloc(n, initOk, growOk)
  /\ UNCHANGED <<lo, hi>>

FailPut(initOk, growOk) ==
  /\ hi < Len(FailIds)
  /\ hi - lo < FailWindow
  /\ DoPutAlloc(FailIds[hi + 1], ValueOf(FailIds[hi + 1]), initOk, growOk)
  /\ hi' = IF pc' = "ready" THEN hi + 1 ELSE hi
  /\ UNCHANGED lo

FailReput(k, growOk) ==
  /\ k \in DOMAIN model
  /\ DoPutAlloc(k, ValueOf(k), TRUE, growOk)
  /\ UNCHANGED <<lo, hi>>

FailDel == QDel(FailIds, FailMin)
FailDelAbsent(k) == QDelAbsent(k)
FailGet(k) == QGet(k)
FailFree == DoFree /\ UNCHANGED <<lo, hi>>

NextFail ==
  \/ \E n \in FailReserveArgs, initOk, growOk \in BOOLEAN : FailReserve(n, initOk, growOk)
  \/ \E initOk, growOk \in BOOLEAN : FailPut(initOk, growOk)
  \/ \E k \in EndKeys(FailIds), growOk \in BOOLEAN : FailReput(k, growOk)
  \/ FailDel
  \/ \E k \in EndKeys(FailIds) : FailDelAbsent(k)
  \/ \E k \in EndKeys(FailIds) : FailGet(k)
  \/ FailFree

SpecFail == Init /\ [][NextFail]_vars

\* ------------------------------------------------------------------------
\* The allocator calls of hash.h.  Images are numbered in the order of their
\* allocation; the handle points at the image allocated last.
\* ------------------------------------------------------------------------
NumHeapIds == 25

Allocs(l) == Cardinality({i \in DOMAIN l : l[i].ev = "alloc"})

\* an event of the log: what is done to image img (copied from image src)
\* and the call that does it
Event(ev, img, src, by) == [ev |-> ev, img |-> img, src |-> src, by |-> by]

\* hash__init: one image is allocated when the handle is null
InitEvents(m, n, by) ==
  IF m = NULL THEN <<Event("alloc", n + 1, 0, by)>> ELSE <<>>

\* a hash__resize that leaves the old image allocated
ResizeEvents_KeepsOld(m0, m1, n, by) ==
  IF hash_capacity(m1) # hash_capacity(m0)
  THEN <<Event("alloc", n + 1, 0, by), Event("rehash", n + 1, n, by)>>
  ELSE <<>>

\* hash__resize from the image m0 (image n) when it gave the image m1:
\* hash__malloc, then hash__rehash(map, new), then hash_free(map), and the
\* handle is repointed
ResizeEvents(m0, m1, n, by) ==
  IF hash_capacity(m1) # hash_capacity(m0)
  THEN <<Event("alloc", n + 1, 0, by), Event("rehash", n + 1, n, by),
         Event("free", n, 0, by)>>
  ELSE <<>>

\* hash_put and hash_reserve: hash__init, then at most one hash__resize
GrowEvents(m, m1, n, by) ==
  InitEvents(m, n, by)
    \o ResizeEvents(hash__init(m, TRUE), m1, n + Len(InitEvents(m, n, by)), by)

\* hash_free: the handle's image is released (the null handle has none)
FreeEvents(m, n) ==
  IF m = NULL THEN <<>> ELSE <<Event("free", n, 0, "free")>>

HeapPutDone(k, v, r) ==
  /\ PutDone(k, v, r)
  /\ log' = log \o GrowEvents(map, r.map, Allocs(log), "put")

\* hash_put of the next fresh id
HeapPut ==
  /\ pc = "ready"
  /\ hi < NumHeapIds
  /\ HeapPutDone(hi, ValueOf(hi), hash_put(map, hi, ValueOf(hi), TRUE, TRUE))
  /\ hi' = hi + 1
  /\ UNCHANGED lo

\* hash_put of the first id again, with another value
HeapReput(v) ==
  /\ pc = "ready"
  /\ hi > 0
  /\ HeapPutDone(0, v, hash_put(map, 0, v, TRUE, TRUE))
  /\ UNCHANGED <<lo, hi>>

HeapReserveDone(n, r) ==
  /\ ReserveDone(n, r)
  /\ log' = log \o GrowEvents(map, r.map, Allocs(log), "reserve")

HeapReserve(n) ==
  /\ pc = "ready"
  /\ HeapReserveDone(n, hash_reserve(map, n, TRUE, TRUE))
  /\ UNCHANGED <<model, lo, hi>>

\* the final hash_free
HeapFree ==
  /\ pc = "ready"
  /\ FreeDone(hash_free(map))
  /\ log' = log \o FreeEvents(map, Allocs(log))
  /\ UNCHANGED <<map, model, lo, hi>>

NextHeap ==
  \/ HeapPut
  \/ \E v \in Values : HeapReput(v)
  \/ \E n \in ReserveArgs : HeapReserve(n)
  \/ HeapFree

SpecHeap == Init /\ [][NextHeap]_vars

\* ------------------------------------------------------------------------
\* SpecGrow: the caller of SpecHeap as a queue: it puts fresh ids, deletes
\* the oldest stored id and reserves more slots at any time, so that images
\* holding Tombstones are grown by hash_put and by hash_reserve
\* ------------------------------------------------------------------------
\* the fresh ids the caller puts; it stores at most GrowWindow of them and
\* deletes once GrowMin are stored
NumGrowIds == 30
GrowWindow == 24
GrowMin == 22

\* hash_put of the next fresh id
GrowPut ==
  /\ hi < NumGrowIds
  /\ hi - lo < GrowWindow
  /\ HeapPut

\* hash_del of the oldest stored id
GrowDel ==
  /\ hi - lo >= GrowMin
  /\ DoDel(lo, FALSE)
  /\ lo' = lo + 1
  /\ UNCHANGED hi

\* the capacities the caller reserves: one more than a power of two
GrowArgs == {n \in ReserveArgs : n % GroupWidth = 1}

\* hash_reserve of more slots than the table has
GrowReserve(n) ==
  /\ n > hash_capacity(map)
  /\ HeapReserve(n)

NextGrow ==
  \/ GrowPut
  \/ GrowDel
  \/ \E n \in GrowArgs : GrowReserve(n)

SpecGrow == Init /\ [][NextGrow]_vars

\* ------------------------------------------------------------------------
\* The caller of hashint.h: puts, gets and deletes in any order; `model`
\* holds the pairs put and not deleted since
\* ------------------------------------------------------------------------
\* puts are made while hashi_size is below MaxHashiSize
MaxHashiSize == 7

\* the values the caller puts for key k: each key has a value of its own,
\* and key 0 a second one, so that an overwrite changes the value stored
HashiValues(k) == IF k = 0 THEN {ValueOf(k), ValueOf(k) + 1} ELSE {ValueOf(k)}

HashiDone(op, k, v, t, status, ret) ==
  /\ table' = t
  /\ pc' = PcOf(status)
  /\ last' = [op |-> op, key |-> k, val |-> v, status |-> status, ret |-> ret]
  /\ UNCHANGED <<map, log, vec, input>>

\* hashi_put(table, k, v)
HashiPutDone(k, v, r) ==
  /\ HashiDone("put", k, v, r.table, r.status, 0)
  /\ model' = IF r.status = "ok" THEN ModelPut(model, HashiKeyOf(k), v) ELSE model

DoHashiPut(k, v) ==
  /\ pc = "ready"
  /\ HashiPutDone(k, v, hashi_put(table, k, v))

HashiPut(k, v) ==
  /\ hashi_size(table) < MaxHashiSize
  /\ DoHashiPut(k, v)
  /\ UNCHANGED <<lo, hi>>

\* hashi_get(table, sizeof(*table), k)
HashiGetDone(k, r) ==
  /\ HashiDone("get", k, 0, table, r.status, r.ret)
  /\ UNCHANGED model

HashiGet(k) ==
  /\ pc = "ready"
  /\ HashiGetDone(k, hashi_get(table, k))
  /\ UNCHANGED <<lo, hi>>

\* hashi_del(table, sizeof(*table), k)
HashiDelDone(k, r) ==
  /\ HashiDone("del", k, 0, r.table, r.status, IF r.ret THEN 1 ELSE 0)
  /\ model' = IF r.ret THEN ModelDel(model, HashiKeyOf(k)) ELSE model

DoHashiDel(k) ==
  /\ pc = "ready"
  /\ HashiDelDone(k, hashi_del(table, k))

HashiDel(k) ==
  /\ DoHashiDel(k)
  /\ UNCHANGED <<lo, hi>>

NextHashi ==
  \/ \E k \in HashiKeys : \E v \in HashiValues(k) : HashiPut(k, v)
  \/ \E k \in HashiKeys : HashiGet(k)
  \/ \E k \in HashiKeys : HashiDel(k)

SpecHashi == Init /\ [][NextHashi]_vars

\* ------------------------------------------------------------------------
\* SpecHashiWrap: a caller of hashint.h whose keys crowd the last slots of
\* the table of 8, so that clusters wrap from slot 7 to slot 0, and which
\* also passes UINT64_MAX as a key
\* ------------------------------------------------------------------------
\* the keys the caller passes
WrapInputs == WrapKeys \cup {HASHI_EMPTY}

\* the value the caller puts for key k: UINT64_MAX has a value of its own
WrapValue(k) == IF k = HASHI_EMPTY THEN 1 ELSE ValueOf(k)

\* puts are made while hashi_size is below MaxWrapSize, so that the table
\* keeps its 8 slots
MaxWrapSize == 6

WrapPut(k) ==
  /\ hashi_size(table) < MaxWrapSize
  /\ HashiPut(k, WrapValue(k))

\* deletes are made on a table that holds an image
WrapDel(k) ==
  /\ table # NullTable
  /\ HashiDel(k)

NextHashiWrap ==
  \/ \E k \in WrapInputs : WrapPut(k)
  \/ \E k \in WrapInputs : WrapDel(k)

SpecHashiWrap == Init /\ [][NextHashiWrap]_vars

\* ------------------------------------------------------------------------
\* SpecHashiQueue: a caller of hashint.h that puts the ids 0, 1, 2, ... in
\* ascending order and deletes the oldest stored id at any time; the ids
\* lo .. hi-1 are stored
\* ------------------------------------------------------------------------
HashiQueuePut ==
  /\ hi < NumHashiIds
  /\ DoHashiPut(hi, ValueOf(hi))
  /\ hi' = IF pc' = "ready" THEN hi + 1 ELSE hi
  /\ UNCHANGED lo

HashiQueueDel ==
  /\ lo < hi
  /\ DoHashiDel(lo)
  /\ lo' = lo + 1
  /\ UNCHANGED hi

NextHashiQueue ==
  \/ HashiQueuePut
  \/ HashiQueueDel

SpecHashiQueue == Init /\ [][NextHashiQueue]_vars

\* ------------------------------------------------------------------------
\* The caller of vectors.h.  The values handed to the vector are 1, 2, ...
\* in this order (hi counts them); lo counts the calls other than
\* v_push_back
\* ------------------------------------------------------------------------
\* at most NumPushes values are handed to the vector ...
NumPushes == 17
\* ... and at most MaxEdits calls other than v_push_back are made
MaxEdits == 2

VecDone(op, i, v, r) ==
  /\ vec' = r.vec
  /\ pc' = PcOf(r.status)
  /\ last' = [op |-> op, key |-> i, val |-> v, status |-> r.status, ret |-> 0]
  /\ UNCHANGED <<map, model, log, table, input>>

\* v_push_back(vec, hi + 1)
VecPushBackAlloc(allocOk, growOk) ==
  /\ pc = "ready"
  /\ hi < NumPushes
  /\ VecDone("push_back", 0, hi + 1, v_push_back(vec, hi + 1, allocOk, growOk))
  /\ hi' = hi + 1
  /\ UNCHANGED lo

VecPushBack == VecPushBackAlloc(TRUE, TRUE)

\* the indices the caller inserts at and removes from
VecIndices(v) == {0, v_size(v) \div 2, v_size(v) - 1} \cap (0..(v_size(v) - 1))

\* v_insert(vec, i, hi + 1) with i < v_size(vec)
VecInsert(i) ==
  /\ pc = "ready"
  /\ hi < NumPushes
  /\ lo < MaxEdits
  /\ i \in VecIndices(vec)
  /\ VecDone("insert", i, hi + 1, v_insert(vec, i, hi + 1, TRUE, TRUE))
  /\ hi' = hi + 1
  /\ lo' = lo + 1

\* v_remove(vec, i) with i < v_size(vec)
VecRemove(i) ==
  /\ pc = "ready"
  /\ lo < MaxEdits
  /\ i \in VecIndices(vec)
  /\ VecDone("remove", i, 0, [vec |-> v_remove(vec, i), status |-> "ok"])
  /\ lo' = lo + 1
  /\ UNCHANGED hi

\* v_pop_back(vec)
VecPopBack ==
  /\ pc = "ready"
  /\ lo < MaxEdits
  /\ VecDone("pop_back", 0, 0, [vec |-> v_pop_back(vec), status |-> "ok"])
  /\ lo' = lo + 1
  /\ UNCHANGED hi

\* v_pop_front(vec) on a vector that is not empty
VecPopFront ==
  /\ pc = "ready"
  /\ lo < MaxEdits
  /\ v_size(vec) > 0
  /\ VecDone("pop_front", 0, 0, [vec |-> v_pop_front(vec), status |-> "ok"])
  /\ lo' = lo + 1
  /\ UNCHANGED hi

\* v_shrink_to_fit(vec) on a vector that has a block
VecShrinkAlloc(allocOk) ==
  /\ pc = "ready"
  /\ lo < MaxEdits
  /\ ~vec.null
  /\ VecDone("shrink_to_fit", 0, 0, v_shrink_to_fit(vec, allocOk))
  /\ lo' = lo + 1
  /\ UNCHANGED hi

VecShrink == VecShrinkAlloc(TRUE)

\* every allocation succeeds
NextVec ==
  \/ VecPushBack
  \/ \E i \in 0..NumPushes : VecInsert(i)
  \/ \E i \in 0..NumPushes : VecRemove(i)
  \/ VecPopBack
  \/ VecPopFront
  \/ VecShrink

SpecVec == Init /\ [][NextVec]_vars

\* malloc and realloc may fail
NextVecFail ==
  \/ \E allocOk, growOk \in BOOLEAN : VecPushBackAlloc(allocOk, growOk)
  \/ VecPopBack
  \/ \E allocOk \in BOOLEAN : VecShrinkAlloc(allocOk)

SpecVecFail == Init /\ [][NextVecFail]_vars

\* ------------------------------------------------------------------------
\* The caller of sorting.h: an array of at most MaxDim elements, each in
\* 1..MaxElem, is sorted, and sorted again, with any of the comparators
\* ------------------------------------------------------------------------
MaxDim == 4
MaxElem == 3

RECURSIVE Arrays(_)
Arrays(n) ==
  IF n = 0 THEN {<<>>}
  ELSE {Append(a, x) : a \in Arrays(n - 1), x \in 1..MaxElem}

InitSort ==
  /\ input \in UNION {Arrays(n) : n \in 0..MaxDim}
  /\ map = NULL /\ pc = "ready" /\ last = NoOp /\ model = [k \in {} |-> 0]
  /\ lo = 0 /\ hi = 0 /\ log = <<>> /\ table = NullTable /\ vec = NullVec

\* the caller's state after a sort gave r; last.val is the array before
SortDone(op, ord, allocOk, r) ==
  /\ input' = r.a
  /\ pc' = PcOf(r.status)
  /\ last' = [op |-> op, key |-> [order |-> ord, allocOk |-> allocOk],
              val |-> input, status |-> r.status, ret |-> r.ret]
  /\ UNCHANGED <<map, model, lo, hi, log, table, vec>>

\* s_insertion(input, dim, sizeof(*input), order)
SortInsertion(ord, allocOk) ==
  /\ pc = "ready"
  /\ SortDone("s_insertion", ord, allocOk, s_insertion(input, Len(input), ord, allocOk))

\* s_selection(input, dim, sizeof(*input), order)
SortSelection(ord, allocOk) ==
  /\ pc = "ready"
  /\ SortDone("s_selection", ord, allocOk, s_selection(input, Len(input), ord, allocOk))

NextSort ==
  \/ \E ord \in Orders, allocOk \in BOOLEAN : SortInsertion(ord, allocOk)
  \/ \E ord \in Orders, allocOk \in BOOLEAN : SortSelection(ord, allocOk)

SpecSort == InitSort /\ [][NextSort]_vars

\* ------------------------------------------------------------------------
\* Properties of the SwissTable map
\* ------------------------------------------------------------------------
FullSlots(m) == {i \in DOMAIN m.meta : hash_is_full(m.meta[i])}
TombSlots(m) == {i \in DOMAIN m.meta : m.meta[i] = HASH__TOMB}
FreeSlots(m) == {i \in DOMAIN m.meta : m.meta[i] = HASH__FREE}

\* position of the group a slot lies in, and of the home group of a key
GroupOf(i) == (i \div GroupWidth) * GroupWidth
HomeOf(m, key) == GroupIndex(HashMemo[key], m.capacity) * GroupWidth

\* C1: every key put and not deleted since is found by get, and the value
\* get points at is the one put last for it (the image refines the map
\* key -> value kept in model).
PointsAt(m, p, v) == p \in DOMAIN m.vals /\ Deref(m, p) = v

C1_GetReturnsLastPut ==
  \A k \in DOMAIN model : PointsAt(map, hash_get(map, k), model[k])

\* a get has returned the value of a key whose value was overwritten, in an
\* image that holds a Tombstone
C1_Witness ==
  /\ last.op = "get" /\ last.status = "ok"
  /\ last.key \in DOMAIN model
  /\ last.ret # NullPtr
  /\ last.val = model[last.key]
  /\ \E i \in TombSlots(map) : map.keys[i] = last.key /\ map.vals[i] # last.val

\* C2: in a non-null table get returns NULL for every key that was never
\* put or was deleted since its last put.
C2_AbsentGetReturnsNull ==
  map # NULL => \A k \in AllKeys \ DOMAIN model : hash_get(map, k) = NullPtr

\* C3: the metadata array always holds a Free byte, so the probe loop of
\* hash__get_idx ends for every key.
C3_SomeFreeByte ==
  map # NULL =>
    /\ FreeSlots(map) # {}
    /\ \A k \in AllKeys : hash__get_idx(map, k).ret # Hang

\* C4: Header.size is the number of metadata bytes with the high bit set.
C4_SizeCountsFull == hash_size(map) = Cardinality(FullSlots(map))

\* a put has grown the table, and a del has since left a Tombstone
C4_Witness ==
  /\ last.op = "del" /\ last.ret = 1
  /\ map.capacity = 2 * HASH__START_CAPACITY
  /\ map.size >= (HASH__START_CAPACITY \div 4) * 3
  /\ TombSlots(map) # {}

RECURSIVE IsPow2(_)
IsPow2(n) == IF n = 1 THEN TRUE ELSE IF n < 1 \/ n % 2 = 1 THEN FALSE ELSE IsPow2(n \div 2)

\* C5: on a non-null table the capacity is a power of two, at least 16, a
\* whole number of groups, and size <= capacity*3/4.
C5_CapacityAndLoad ==
  map # NULL =>
    /\ IsPow2(map.capacity)
    /\ map.capacity >= 16
    /\ map.capacity % GroupWidth = 0
    /\ map.size * 4 <= map.capacity * 3

\* a put has just grown the table from 16 to 32 slots
C5_Witness ==
  /\ last.op = "put" /\ last.status = "ok"
  /\ map.capacity = 32
  /\ map.size = 12
  /\ hi = 12 /\ lo = 0

\* C6: no two Full slots hold equal keys.
C6_NoDuplicateKeys ==
  \A i, j \in FullSlots(map) : map.keys[i] = map.keys[j] => i = j

\* a put has overwritten a key whose slot lies behind a Tombstone of its
\* own group (a fresh insert would have taken the Tombstone's slot)
C6_Witness ==
  /\ last.op = "put" /\ last.status = "ok"
  /\ \E j \in FullSlots(map) :
       /\ map.keys[j] = last.key
       /\ \E i \in TombSlots(map) : i < j /\ GroupOf(i) = GroupOf(j)

\* the groups the probe visits from position g before it reaches position
\* target hold no Free byte
RECURSIVE NoFreeBefore(_, _, _, _)
NoFreeBefore(m, g, target, steps) ==
  IF g = target THEN TRUE
  ELSE IF steps >= m.capacity \div GroupWidth THEN FALSE
  ELSE /\ \A j \in Group(g) : m.meta[j] # HASH__FREE
       /\ NoFreeBefore(m, BitAnd(g + 16, m.capacity - 1), target, steps + 1)

\* C7: for every Full slot i, the groups from the home group of keys[i] up
\* to the group of i hold no Free byte, so the Match probe reaches slot i.
C7_ProbeReachesFullSlots ==
  \A i \in FullSlots(map) : NoFreeBefore(map, HomeOf(map, map.keys[i]), GroupOf(i), 0)

\* after a growth to 64 slots whose rehash moved keys past their full home
\* group, a key is stored outside its home group and a Tombstone lies in
\* that home group
C7_Witness ==
  /\ map.capacity = 4 * GroupWidth
  /\ \E i \in FullSlots(map) :
       /\ HomeOf(map, map.keys[i]) # GroupOf(i)
       /\ \E t \in TombSlots(map) : GroupOf(t) = HomeOf(map, map.keys[i])

\* C8: del of a present key returns true, turns exactly that key's
\* metadata byte into a Tombstone, takes one off size, leaves capacity,
\* keys, values and the other metadata bytes alone, and a get of the key
\* then returns NULL.
C8_DelPresent ==
  [][ (last'.op = "del" /\ map # NULL /\ last'.key \in DOMAIN model) =>
        /\ last'.status = "ok"
        /\ last'.ret = 1
        /\ \E i \in FullSlots(map) :
             /\ map.keys[i] = last'.key
             /\ map'.meta = [map.meta EXCEPT ![i] = HASH__TOMB]
        /\ map'.size = map.size - 1
        /\ map'.capacity = map.capacity
        /\ map'.val_size = map.val_size
        /\ map'.keys = map.keys
        /\ map'.vals = map.vals
        /\ hash_get(map', last'.key) = NullPtr ]_vars

\* C9: del of a key that is not present in a non-null table returns false
\* and changes nothing in the image.
C9_DelAbsent ==
  [][ (last'.op = "del" /\ map # NULL /\ last'.key \notin DOMAIN model) =>
        /\ last'.status = "ok"
        /\ last'.ret = 0
        /\ map' = map ]_vars

\* r is what put(k, v2) gives in the current state
SecondPut(k, v2, r) ==
  /\ r.status = "ok"
  /\ PointsAt(r.map, hash_get(r.map, k), v2)
  /\ hash_size(r.map) = hash_size(map)

\* C10: in the state a put(K, V1) was called in, the put returns, and a
\* following put(K, V2) returns, makes get(K) yield V2 and leaves size as
\* the first put left it.
C10_PutPutGet ==
  last.op = "put" =>
    /\ last.status = "ok"
    /\ \A v2 \in Values : SecondPut(last.key, v2, hash_put(map, last.key, v2, TRUE, TRUE))

\* the (key, value) pairs an image holds in its Full slots
Pairs(m) == {<<m.keys[i], m.vals[i]>> : i \in FullSlots(m)}

\* image g holds exactly the given pairs, each in one Full slot, and its
\* size counts them
HoldsOnce(g, pairs, size) ==
  /\ Pairs(g) = pairs
  /\ hash_size(g) = size
  /\ Cardinality(FullSlots(g)) = size
  /\ \A i, j \in FullSlots(g) : g.keys[i] = g.keys[j] => i = j

\* growing m gave g
Grown(m, g, capacity) ==
  /\ hash_capacity(g) = capacity
  /\ HoldsOnce(g, Pairs(m), hash_size(m))

\* the pairs put and not deleted since
ModelPairs(f) == {<<k, f[k]>> : k \in DOMAIN f}

\* C11: growth keeps the pairs and the size.  After every step, the steps
\* of put and reserve that grow the table among them, the image holds
\* exactly the pairs put and not deleted since, each in one Full slot, and
\* size counts them; and a growth step taken from any reachable image, by
\* hash__resize to twice the capacity or by reserve to four times the
\* capacity, gives an image with the same pairs, each once, and the same
\* size.
C11_GrowthKeepsPairs ==
  map # NULL =>
    /\ HoldsOnce(map, ModelPairs(model), Cardinality(DOMAIN model))
    /\ Grown(map, hash__resize(map, 2 * hash_capacity(map), TRUE),
             2 * hash_capacity(map))
    /\ Grown(map, hash_reserve(map, (2 * hash_capacity(map)) + 1, TRUE, TRUE).map,
             4 * hash_capacity(map))

\* a put has just grown the table to 64 slots: the old image held
\* Tombstones, and the rehash placed a key past its full home group
C11_Witness ==
  /\ last.op = "put" /\ last.status = "ok"
  /\ map.capacity = 4 * GroupWidth
  /\ map.size = CollideWindow
  /\ lo > 0
  /\ TombSlots(map) = {}
  /\ \E i \in FullSlots(map) : HomeOf(map, map.keys[i]) # GroupOf(i)

\* image m holds the keys 0 .. n-1, each with value key*10, in a table of
\* the given capacity
AfterPuts(m, n, capacity) ==
  /\ hash_capacity(m) = capacity
  /\ hash_size(m) = n
  /\ \A k \in 0..(n - 1) : PointsAt(m, hash_get(m, k), ValueOf(k))

\* image m holds n keys and was never reserved: the handle is null before
\* the first put, and the capacity came from hash__init and from put
Unreserved(m, n) == hash_size(m) = n /\ hash_capacity(m) < FillReserveArg

\* the step stores the next id of the ascending stream, as put number hi'
NextIdPut == last'.op = "put" /\ last'.status = "ok" /\ lo = 0 /\ hi' = hi + 1

Grows(m, m2) == m # NULL /\ hash_capacity(m2) > hash_capacity(m)

FirstReserve == last'.op = "reserve" /\ last'.key = FillReserveArg /\ map = NULL

\* the step is put number hi' into the table reserve made
ReservedPut == NextIdPut /\ hash_capacity(map) = 128 /\ hash_size(map) = hi

Pow2AtLeast(n) == SetMin({p \in 1..(2 * n) : IsPow2(p) /\ p >= n})

\* reserve(h, n) took the non-null image m to m2
ReserveFrame(m, n, m2) ==
  IF n <= hash_capacity(m)
  THEN m2 = m
  ELSE /\ hash_capacity(m2) = Pow2AtLeast(n)
       /\ HoldsOnce(m2, Pairs(m), hash_size(m))
       /\ \A k \in DOMAIN model : PointsAt(m2, hash_get(m2, k), model[k])

\* reserve(h, n) took the null handle to m2
ReserveOnNull(n, m2) ==
  /\ m2 # NULL
  /\ hash_capacity(m2) = (IF n <= HASH__START_CAPACITY THEN HASH__START_CAPACITY
                          ELSE Pow2AtLeast(n))
  /\ hash_size(m2) = 0
  /\ FreeSlots(m2) = DOMAIN m2.meta

\* C15 as stated: reserve(h, n) with n <= capacity(h) changes nothing,
\* neither handle nor capacity, size, metadata, keys, values; with
\* n > capacity(h) it makes capacity the smallest power of two >= n and
\* keeps size and the key -> value map; for every handle, null or not.
C15_ReserveFrame ==
  [][ last'.op = "reserve" =>
        /\ last'.status = "ok"
        /\ IF map = NULL
           THEN IF last'.key <= 0 THEN map' = map
                ELSE hash_capacity(map') = Pow2AtLeast(last'.key) /\ hash_size(map') = 0
           ELSE ReserveFrame(map, last'.key, map') ]_vars

\* C15 amended: on a non-null handle reserve(h, n) is as stated; on the
\* null handle it first allocates the image of 16 Free slots, so the
\* handle becomes non-null for every n, and capacity becomes 16 for
\* n <= 16 and the smallest power of two >= n otherwise.
C15_ReserveFrameNonNull ==
  [][ last'.op = "reserve" =>
        /\ last'.status = "ok"
        /\ IF map = NULL
           THEN ReserveOnNull(last'.key, map')
           ELSE ReserveFrame(map, last'.key, map') ]_vars

\* a reserve of more than 32 slots has grown a table that holds a pair
C15_Witness ==
  /\ last.op = "reserve" /\ last.status = "ok"
  /\ last.key > 2 * HASH__START_CAPACITY
  /\ map.capacity = 4 * HASH__START_CAPACITY
  /\ map.size = 1
  /\ Cardinality(DOMAIN model) = 1

\* C16: on the null handle get returns NULL, del returns false and free
\* does nothing, and none of them reads, writes or releases memory through
\* the null handle.
C16_NullHandleNoOps ==
  [][ (map = NULL /\ last'.op \in {"get", "del", "free"}) =>
        /\ last'.status = "ok"
        /\ map' = NULL
        /\ last'.op = "get" => last'.ret = NullPtr
        /\ last'.op = "del" => last'.ret = 0 ]_vars

\* m is an image of 16 slots that holds the pair (k, v) in one Full slot
\* and nothing else: the other metadata bytes are Free
FirstPair(m, k, v) ==
  /\ hash_capacity(m) = 16
  /\ hash_size(m) = 1
  /\ Pairs(m) = {<<k, v>>}
  /\ Cardinality(FullSlots(m)) = 1
  /\ Cardinality(FreeSlots(m)) = 15
  /\ PointsAt(m, hash_get(m, k), v)

\* m is an image of 16 slots, all Free, with size 0
FreshImage(m) ==
  /\ m # NULL
  /\ hash_capacity(m) = 16
  /\ hash_size(m) = 0
  /\ DOMAIN m.meta = 0..15
  /\ FreeSlots(m) = 0..15

\* C17: size and capacity of the null handle are 0; hash__init on it gives
\* an image of capacity 16 whose metadata bytes are all Free; and the first
\* put(K, V) on the null handle returns with that image holding the pair:
\* size 1, capacity 16, get(K) pointing at V.
C17_FirstPut ==
  [][ map = NULL =>
        /\ hash_size(map) = 0
        /\ hash_capacity(map) = 0
        /\ FreshImage(hash__init(map, TRUE))
        /\ last'.op = "put" =>
              last'.status = "ok" /\ FirstPair(map', last'.key, last'.val) ]_vars

\* the first put on the null handle has returned
C17_Witness ==
  /\ last.op = "put" /\ last.status = "ok"
  /\ map.capacity = 16 /\ map.size = 1
  /\ DOMAIN model = {last.key}
  /\ \A i \in DOMAIN map.keys : map.keys[i] \in {last.key, Uninit}
  /\ TombSlots(map) = {}

\* the step is a put or a reserve on a non-null handle whose growth found
\* no memory: the put left size at or above (capacity / 4) * 3, the reserve
\* left capacity below the count asked for
GrowthFailed ==
  /\ map # NULL
  /\ last'.status = "ok"
  /\ \/ /\ last'.op = "put"
        /\ hash_size(map') >= (hash_capacity(map') \div 4) * 3
     \/ /\ last'.op = "reserve"
        /\ last'.key > hash_capacity(map')

\* C18: a put or reserve whose growth allocation fails has no effect: the
\* handle keeps the old image, size, capacity and the key -> value map are
\* as before, and size <= 3/4 capacity still holds.
C18_GrowthFailureNoEffect ==
  [][ GrowthFailed =>
        /\ map' = map
        /\ model' = model
        /\ hash_size(map') * 4 <= hash_capacity(map') * 3 ]_vars

\* C19: a put or reserve on the null handle whose initial allocation fails
\* leaves the handle null and returns without reading memory through it;
\* the state is the one before the operation.
C19_InitFailureNoEffect ==
  [][ (map = NULL /\ last'.op \in {"put", "reserve"} /\ map' = NULL) =>
        /\ last'.status = "ok"
        /\ pc' = "ready"
        /\ model' = model ]_vars

\* the result of hash_del, as a result of hash_put is given
DelResult(r) == [map |-> r.map, status |-> r.status]

\* one key of a pass over the key domain: the pass of puts stores key k
\* again with its value in f when f has it; the pass of dels calls del for
\* key k when f does not have it
ResyncKey(m, f, k, dels) ==
  IF dels
  THEN IF k \in DOMAIN f THEN [map |-> m, status |-> "ok"]
       ELSE DelResult(hash_del(m, k, FALSE))
  ELSE IF k \in DOMAIN f THEN hash_put(m, k, f[k], TRUE, TRUE)
       ELSE [map |-> m, status |-> "ok"]

\* a pass over the keys a..b in ascending order, from the result r of what
\* came before; the pass stops with the first call that does not return
RECURSIVE ResyncRange(_, _, _, _, _)
ResyncRange(r, f, a, b, dels) ==
  IF r.status # "ok" THEN r
  ELSE IF a = b THEN ResyncKey(r.map, f, a, dels)
  ELSE ResyncRange(ResyncRange(r, f, a, (a + b) \div 2, dels),
                   f, ((a + b) \div 2) + 1, b, dels)

\* the pass of puts, then the pass of dels, over the key domain
Resync(m, f) ==
  ResyncRange(ResyncRange([map |-> m, status |-> "ok"], f, 0, NumIds - 1, FALSE),
              f, 0, NumIds - 1, TRUE)

\* r is what the puts and dels gave from image m
ResyncSame(m, r) ==
  /\ r.status = "ok"
  /\ Pairs(r.map) = Pairs(m)
  /\ hash_size(r.map) = hash_size(m)

\* C20: in every state with a table, putting every present key again with
\* its value and calling del for every absent key of the key domain
\* returns, and leaves the pairs and the size as they were.
C20_ResyncIdentity ==
  map # NULL => ResyncSame(map, Resync(map, model))


\* the images allocated and not freed by the first i events of l
LiveAfter(l, i) ==
  {n \in 1..Allocs(l) :
     /\ \E a \in 1..i : l[a].ev = "alloc" /\ l[a].img = n
     /\ ~ \E f \in 1..i : l[f].ev = "free" /\ l[f].img = n}

Frees(l, n) == Cardinality({i \in DOMAIN l : l[i].ev = "free" /\ l[i].img = n})

\* C21: every allocated image is freed exactly once by the final hash_free
\* and the growths before it; a growth allocates and fills the new image
\* before it frees the old one, both are allocated while the rehash copies,
\* the handle then points at the one image left, and never more than two
\* images are allocated at a time
C21_ImagesFreedOnce ==
  /\ \A i \in DOMAIN log :
       /\ Cardinality(LiveAfter(log, i)) <= 2
       /\ log[i].ev = "free" => log[i].img \in LiveAfter(log, i - 1)
       /\ log[i].ev = "rehash" =>
            /\ {log[i].src, log[i].img} \subseteq LiveAfter(log, i - 1)
            /\ log[i - 1] = Event("alloc", log[i].img, 0, log[i].by)
            /\ i < Len(log)
            /\ log[i + 1] = Event("free", log[i].src, 0, log[i].by)
  /\ (pc = "ready" /\ map = NULL) => log = <<>>
  /\ (pc = "ready" /\ map # NULL) =>
       /\ Allocs(log) > 0
       /\ LiveAfter(log, Len(log)) = {Allocs(log)}
  /\ pc = "freed" =>
       /\ LiveAfter(log, Len(log)) = {}
       /\ \A n \in 1..Allocs(log) : Frees(log, n) = 1

\* two growths, one by put and one by reserve or put, then the final free
C21_Witness ==
  /\ pc = "freed"
  /\ Allocs(log) = 3
  /\ hi >= 12
  /\ \A n \in 1..3 : Frees(log, n) = 1


\* the key slots of a table that hold a key
HashiStored(t) == {i \in 1..hashi_capacity(t) : t.keys[i] # HASHI_EMPTY}

\* C22: after every put and delete hashi_size is the number of distinct
\* keys stored, and a hashi_del that returns true decreases it by one
C22_SizeCountsKeys ==
  [][pc' = "ready" =>
       /\ hashi_size(table') = Cardinality(HashiStored(table'))
       /\ hashi_size(table') = Cardinality(DOMAIN model')
       /\ (last'.op = "del" /\ last'.ret = 1) =>
             hashi_size(table') = hashi_size(table) - 1]_vars

\* what hashi_get must give for key k when the pairs stored are f
HashiExpected(f, k) ==
  [status |-> "ok", ret |-> IF k \in DOMAIN f THEN f[k] ELSE NullPtr]

\* C23: after any puts and deletes, hashi_get gives the value put last for
\* a key put and not deleted since, and NULL for any other key
C23_GetReturnsLastPut ==
  pc = "ready" => \A k \in HashiKeys : hashi_get(table, k) = HashiExpected(model, k)

\* the same for the tables that hold an image
C23_GetReturnsLastPutNonNull ==
  (pc = "ready" /\ table # NullTable) =>
     \A k \in HashiKeys : hashi_get(table, k) = HashiExpected(model, k)


\* C24: with every allocation succeeding, size <= capacity after every
\* call, and no call writes an element at an index >= capacity
C24_SizeWithinCapacity ==
  /\ v_size(vec) <= v_capacity(vec)
  /\ pc # "fault"

\* v_push_back(vec, val) needs malloc or realloc and is refused it
PushAllocFails(v, allocOk, growOk) ==
  \/ v.null /\ ~allocOk
  \/ ~v.null /\ v_capacity(v) - v_size(v) = 0 /\ ~growOk

\* C25: a v_push_back whose malloc or realloc fails adds no element: size
\* and elements stay, nothing is written through a null vector or beyond
\* the capacity
C25_FailedPushNoEffect ==
  pc = "ready" =>
    \A allocOk, growOk \in BOOLEAN :
       PushAllocFails(vec, allocOk, growOk) =>
         v_push_back(vec, hi + 1, allocOk, growOk) = [vec |-> vec, status |-> "ok"]

\* the smallest 8 * 2^k that is >= n
RECURSIVE StartDoubled(_, _)
StartDoubled(c, n) == IF c >= n THEN c ELSE StartDoubled(2 * c, n)

\* C26: after n >= 1 calls of v_push_back on a null vector, v_size is n,
\* the elements are x1 .. xn in this order, and the capacity is the
\* smallest 8 * 2^k >= n
C26_PushBackSequence ==
  (lo = 0 /\ hi >= 1) =>
     /\ pc = "ready"
     /\ v_size(vec) = hi
     /\ \A i \in 0..(hi - 1) : vec.elems[i + 1] = i + 1
     /\ v_capacity(vec) = StartDoubled(V_START_CAPACITY, hi)

\* seventeen push_backs: the capacity was doubled twice
C26_Witness ==
  /\ lo = 0
  /\ hi = 17
  /\ v_size(vec) = 17
  /\ v_capacity(vec) = 32
  /\ vec.elems[17] = 17


\* how often x occurs in the array a
Occurrences(a, x) == Cardinality({i \in DOMAIN a : a[i] = x})

IsPermutation(a, b) ==
  /\ Len(a) = Len(b)
  /\ \A x \in 1..MaxElem : Occurrences(a, x) = Occurrences(b, x)

\* C27: a sort of dim >= 1 elements with a strict-order comparator returns
\* dim and leaves a permutation of the input in which order(a[i+1], a[i]) is
\* false for every adjacent pair; when the scratch allocation fails it
\* returns -1 and leaves the array as it was
C27_SortsOrFails ==
  (last.op \in {"s_insertion", "s_selection"} /\ Len(last.val) >= 1) =>
     /\ pc = "ready"
     /\ IF last.key.allocOk
        THEN /\ last.ret = Len(last.val)
             /\ IsPermutation(input, last.val)
             /\ \A i \in 1..(Len(input) - 1) :
                  ~Order(last.key.order, input[i + 1], input[i])
        ELSE /\ last.ret = -1
             /\ input = last.val

\* s_selection has sorted an array of at least three elements by the
\* partial order "divides" and had to exchange elements
C27_Witness ==
  /\ last.op = "s_selection"
  /\ last.key = [order |-> "divides", allocOk |-> TRUE]
  /\ Len(last.val) >= 3
  /\ input # last.val
  /\ last.ret = Len(last.val)


\* the capacity of the image hash_put writes the pair to: that of the
\* handle, or of the image hash__init makes for a null handle
PutCapacity(m) == hash_capacity(hash__init(m, TRUE))

C29_GrowthKeepsNewPair ==
  [][(last'.op = "put" /\ pc' = "ready"
        /\ hash_capacity(map') # PutCapacity(map)) =>
       /\ hash_get(map', last'.key) \notin {NullPtr, Hang}
       /\ Deref(map', hash_get(map', last'.key)) = last'.val
       /\ hash_size(map') = Cardinality(FullSlots(map'))
       /\ \E i \in FullSlots(map') :
            map'.keys[i] = last'.key /\ map'.vals[i] = last'.val]_vars

\* the put of the twenty-fourth id has grown the image of 32 slots to 64
\* and the id is read back from the new image
C29_Witness ==
  /\ last.op = "put" /\ last.key = 23 /\ pc = "ready"
  /\ log # <<>>
  /\ log[Len(log)] = Event("free", Allocs(log) - 1, 0, "put")
  /\ hash_capacity(map) = 64
  /\ hash_get(map, 23) \notin {NullPtr, Hang}
  /\ Deref(map, hash_get(map, 23)) = ValueOf(23)


\* the slots that are not Full in the j-th group of the probe from the home
\* group of key
NonFullAt(m, key, j) ==
  {i \in Group(BitAnd(HomeOf(m, key) + (GroupWidth * j), m.capacity - 1)) :
     ~hash_is_full(m.meta[i])}

\* the lowest non-Full slot of the first group, in probe order from the home
\* group of key, that has one; Hang when no group has one
FirstNonFull(m, key) ==
  LET groups == {j \in 0..((m.capacity \div GroupWidth) - 1) : NonFullAt(m, key, j) # {}}
  IN IF groups = {} THEN Hang ELSE SetMin(NonFullAt(m, key, SetMin(groups)))

\* the image m with the pair (key, val) stored in slot i
StoredAt(m, key, val, i) ==
  [m EXCEPT !.meta[i] = 128 + hash__hash7(HashMemo[key]),
            !.keys[i] = key,
            !.vals[i] = val,
            !.size = @ + 1]

\* the image after the if/else of hash_put(map, key, val), before its
\* load-factor check
PutWritten(m, key, val) ==
  PutStore(hash__init(m, TRUE), key, val, hash__get_idx(hash__init(m, TRUE), key))

\* the put of a key that is not stored returns, and has stored the pair as
\* StoredAt the slot FirstNonFull
MissStored(m, key, val, written) ==
  /\ written.status = "ok"
  /\ FirstNonFull(hash__init(m, TRUE), key) # Hang
  /\ written.map = StoredAt(hash__init(m, TRUE), key, val,
                            FirstNonFull(hash__init(m, TRUE), key))

\* C30: a put of a key that is not stored writes the pair to the lowest
\* non-Full slot, Free or Tombstone, of the first group in probe order from
\* the key's home group that has one, and adds one to size
C30_MissStoresInFirstNonFull ==
  [][(last'.op = "put" /\ last'.key \notin DOMAIN model) =>
       MissStored(map, last'.key, last'.val, PutWritten(map, last'.key, last'.val))]_vars

\* the same for the puts that return
C30_ReturningMissStoresInFirstNonFull ==
  [][(last'.op = "put" /\ last'.key \notin DOMAIN model /\ pc' = "ready") =>
       MissStored(map, last'.key, last'.val, PutWritten(map, last'.key, last'.val))]_vars

\* the image hash_put(m, ...) probes: hash__init has replaced a null handle
PutImage(m) == hash__init(m, TRUE)

\* hash_put(m, key, ...) reaches its else branch and calls
\* hash__get_freetombidx: hash__get_idx has returned, and not with 1
CallsFreeTomb(m, key) == hash__get_idx(PutImage(m), key).ret = -1

\* the probe of hash__get_freetombidx(m, key) returns the index of a slot of
\* m that is not Full
FreeTombFound(m, key, idx) ==
  /\ idx # Hang
  /\ idx \in DOMAIN m.meta
  /\ ~hash_is_full(m.meta[idx])

\* C31: whenever hash_put calls hash__get_freetombidx, the image holds a
\* slot that is Free or Tombstone, and the probe ends with the index of a
\* slot that is not Full
C31_FreeTombProbeEnds ==
  [][(last'.op = "put" /\ CallsFreeTomb(map, last'.key)) =>
       /\ FreeSlots(PutImage(map)) \cup TombSlots(PutImage(map)) # {}
       /\ FreeTombFound(PutImage(map), last'.key,
                        hash__get_freetombidx(PutImage(map), last'.key))]_vars

\* the put of the fresh id 163 has called hash__get_freetombidx and taken
\* the last Free byte: Tombstones fill the rest of the image
C31_Witness ==
  /\ last.op = "put" /\ last.status = "ok"
  /\ last.key = 163 /\ hi = 164
  /\ FreeSlots(map) = {}
  /\ TombSlots(map) # {}
  /\ hash_get(map, 163) \notin {NullPtr, Hang}

\* the metadata byte b of a slot holding key k is Free, Tombstone, or
\* 0x80 | hash__hash7(hash__hash(k))
WellFormedByte(b, k) ==
  \/ b = HASH__FREE
  \/ b = HASH__TOMB
  \/ /\ hash_is_full(b)
     /\ b \in 128..255
     /\ k \in AllKeys
     /\ BitAnd(b, 127) = hash__hash7(HashMemo[k])

\* C32: every metadata byte is 0x00, 0x01 or has its high bit set, and the
\* low 7 bits of the byte of a Full slot are bits 57..63 of the hash of the
\* slot's key, in every image, those built by hash__rehash included
C32_MetadataBytesWellFormed ==
  \A i \in DOMAIN map.meta : WellFormedByte(map.meta[i], map.keys[i])

\* a put has grown the table, its rehash copying Full bytes of several
\* tags, and a del has since left a Tombstone in the new image
C32_Witness ==
  /\ log # <<>>
  /\ log[Len(log)] = Event("free", Allocs(log) - 1, 0, "put")
  /\ last.op = "del" /\ last.ret = 1
  /\ TombSlots(map) # {}
  /\ Cardinality({map.meta[i] : i \in FullSlots(map)}) > 2

\* the call that turned the handle m into m2 has grown the table
HasGrown(m, m2) == hash_capacity(m2) > hash_capacity(PutImage(m))

\* the image m holds no Tombstone: size bytes are Full, the others Free
NoTombstones(m) ==
  /\ TombSlots(m) = {}
  /\ Cardinality(FullSlots(m)) = hash_size(m)
  /\ Cardinality(FreeSlots(m)) = hash_capacity(m) - hash_size(m)

\* C33: right after a growth, by hash_put or by hash_reserve, the new image
\* holds no Tombstone: exactly size bytes are Full and the other
\* capacity - size bytes are Free
C33_GrowthDropsTombstones ==
  [][HasGrown(map, map') => NoTombstones(map')]_vars

\* a growth of an image that holds Tombstones, by hash_put
PutGrowsTombstones ==
  /\ last'.op = "put"
  /\ HasGrown(map, map')
  /\ TombSlots(PutWritten(map, last'.key, last'.val).map) # {}

\* a growth of an image that holds Tombstones, by hash_reserve
ReserveGrowsTombstones ==
  /\ last'.op = "reserve"
  /\ HasGrown(map, map')
  /\ TombSlots(map) # {}

\* no hash_put grows an image that holds Tombstones (refuted on SpecGrow)
C33_NoPutGrowsTombstones == [][~PutGrowsTombstones]_vars

\* no hash_reserve grows an image that holds Tombstones (refuted on SpecGrow)
C33_NoReserveGrowsTombstones == [][~ReserveGrowsTombstones]_vars

\* a put has just grown the table to 64 slots after ids were deleted from
\* the image of 32: the new image holds the stored ids and no Tombstone
C33_Witness ==
  /\ log # <<>>
  /\ log[Len(log)] = Event("free", Allocs(log) - 1, 0, "put")
  /\ last.op = "put" /\ last.key = hi - 1
  /\ lo > 0
  /\ hash_capacity(map) = 64
  /\ hash_size(map) = hi - lo
  /\ TombSlots(map) = {}

\* C34: hash_get on a non-null table changes nothing: the handle and the
\* image it points at (size, capacity, every metadata byte, key and value)
\* are the same after the call, for a key that is stored and for one that
\* is not
C34_GetHasNoEffect ==
  [][(last'.op = "get" /\ map # NULL) =>
       /\ map' = map
       /\ hash_size(map') = hash_size(map)
       /\ hash_capacity(map') = hash_capacity(map)
       /\ model' = model]_vars

\* a get of a stored key has returned its value from an image that also
\* holds the Tombstone of a deleted key
C34_Witness ==
  /\ last.op = "get" /\ last.status = "ok"
  /\ last.ret # NullPtr
  /\ last.key \in DOMAIN model
  /\ hash_size(map) = 1
  /\ \E i \in TombSlots(map) : map.keys[i] # last.key

\* a get of a deleted key has returned NULL, its Tombstone still in place
C34_WitnessAbsent ==
  /\ last.op = "get" /\ last.status = "ok"
  /\ last.ret = NullPtr
  /\ last.key \notin DOMAIN model
  /\ \E i \in TombSlots(map) : map.keys[i] = last.key

\* the image m with val written to the value slot of the stored key
Overwritten(m, key, val) ==
  IF hash_get(m, key) \in {NullPtr, Hang} THEN NULL
  ELSE [m EXCEPT !.vals[hash_get(m, key)] = val]

\* C35: a put of a key that is stored returns and changes only the value of
\* the key's slot: the handle, size, capacity, every metadata byte and
\* every key are the same after the call, and the table has not grown
C35_OverwriteFrame ==
  [][(last'.op = "put" /\ last'.key \in DOMAIN model) =>
       /\ pc' = "ready"
       /\ map' = Overwritten(map, last'.key, last'.val)
       /\ hash_size(map') = hash_size(map)
       /\ hash_capacity(map') = hash_capacity(map)
       /\ map'.meta = map.meta
       /\ map'.keys = map.keys]_vars

\* id 0, put with value 0, has been put again with value 2 while 11 ids are
\* stored in 16 slots, one below the growth threshold
C35_Witness ==
  /\ last.op = "put" /\ last.status = "ok"
  /\ last.key = 0 /\ last.val = 2
  /\ hi = 11
  /\ hash_size(map) = 11 /\ hash_capacity(map) = 16
  /\ hash_get(map, 0) \notin {NullPtr, Hang}
  /\ Deref(map, hash_get(map, 0)) = 2

\* i = (i + 16) & (m - 1) without the mask
GroupAfter_Unmasked(i, m) == i + 16

\* i = (i + 16) & (m - 1), the step of the two group probes
GroupAfter(i, m) == BitAnd(i + 16, m - 1)

\* idx = (idx + 1) & (hash_capacity(nmap) - 1), the step of hash__rehash
SlotAfter(idx, m) == BitAnd(idx + 1, m - 1)

\* the positions i at which the for(;;) of hash__get_idx loads a group,
\* up to its return, or up to the first load that is not inside the
\* metadata array, or up to the first position it comes back to
RECURSIVE GetIdxVisited(_, _, _, _, _)
GetIdxVisited(m, key, mask, i, seen) ==
  IF ~(Group(i) \subseteq DOMAIN m.meta) THEN seen \cup {i}
  ELSE IF GetIdxStep({j \in Group(i) : m.meta[j] = mask /\ m.keys[j] = key},
                     {j \in Group(i) : m.meta[j] = HASH__FREE}).ret # 0
  THEN seen \cup {i}
  ELSE IF GroupAfter(i, m.capacity) \in seen \cup {i} THEN seen \cup {i}
  ELSE GetIdxVisited(m, key, mask, GroupAfter(i, m.capacity), seen \cup {i})

\* the same for the for(;;) of hash__get_freetombidx
RECURSIVE FreeTombVisited(_, _, _)
FreeTombVisited(m, i, seen) ==
  IF ~(Group(i) \subseteq DOMAIN m.meta) THEN seen \cup {i}
  ELSE IF {j \in Group(i) : BitAnd(m.meta[j], 128) = 0} # {} THEN seen \cup {i}
  ELSE IF GroupAfter(i, m.capacity) \in seen \cup {i} THEN seen \cup {i}
  ELSE FreeTombVisited(m, GroupAfter(i, m.capacity), seen \cup {i})

\* the positions idx that the while loop of hash__rehash reads in nmap
RECURSIVE RehashVisited(_, _, _)
RehashVisited(nmap, idx, seen) ==
  IF idx \notin DOMAIN nmap.meta THEN seen \cup {idx}
  ELSE IF hash_is_free(nmap.meta[idx]) THEN seen \cup {idx}
  ELSE IF SlotAfter(idx, hash_capacity(nmap)) \in seen \cup {idx} THEN seen \cup {idx}
  ELSE RehashVisited(nmap, SlotAfter(idx, hash_capacity(nmap)), seen \cup {idx})

\* one pass of the for loop of hash__rehash on the image old, with
\* t = [img, pos]: the image
\* after the pass, and the positions read so far
RehashTraceSlot(old, t, i) ==
  IF hash_is_full(old.meta[i])
  THEN [img |-> RehashSlot(old, t.img, i),
        pos |-> t.pos \cup RehashVisited(t.img,
                  GroupIndex(HashMemo[old.keys[i]], hash_capacity(t.img)) * 16, {})]
  ELSE t

\* the passes for the indices a..b in ascending order
RECURSIVE RehashTrace(_, _, _, _)
RehashTrace(old, t, a, b) ==
  IF a > b THEN t
  ELSE IF a = b THEN RehashTraceSlot(old, t, a)
  ELSE CHOOSE r \in {RehashTrace(old, left, ((a + b) \div 2) + 1, b) :
                      left \in {RehashTrace(old, t, a, (a + b) \div 2)}} : TRUE

\* the positions hash__rehash reads in the new image of ncapacity slots
\* when hash__resize grows the image m
RehashPositions(m, ncapacity) ==
  RehashTrace(m, [img |-> NewImage(ncapacity, m.val_size, hash_size(m)), pos |-> {}],
              0, hash_capacity(m) - 1).pos

\* the positions of m at which a 16-byte load lies inside the metadata
\* array and is 16-byte aligned (the array starts at an aligned address)
AlignedGroups(m) ==
  {i \in 0..(hash_capacity(m) - 1) : i % GroupWidth = 0 /\ i + GroupWidth <= hash_capacity(m)}

\* the keys that are or were stored in m, and the keys 0..MaxKey
ProbedKeys(m) == {m.keys[i] : i \in FullSlots(m) \cup TombSlots(m)} \cup Keys

\* the two group probes of m, for every key of ProbedKeys, load at
\* AlignedGroups only
GroupProbesInBounds(m) ==
  \A k \in ProbedKeys(m) :
    /\ GetIdxVisited(m, k, hash__hash7(HashMemo[k]) + 128, HomeOf(m, k), {})
         \subseteq AlignedGroups(m)
    /\ FreeTombVisited(m, HomeOf(m, k), {}) \subseteq AlignedGroups(m)

\* the image that the call recorded in l has handed to hash__resize
GrowthSource(m, l) ==
  IF l.op = "put" THEN PutWritten(m, l.key, l.val).map ELSE PutImage(m)

C36_WitnessRehash ==
  /\ last.op = "put" /\ last.status = "ok"
  /\ hash_capacity(map) = 4 * GroupWidth
  /\ hash_size(map) = CollideWindow
  /\ lo > 0
  /\ \E i \in FullSlots(map) :
       /\ i % GroupWidth # 0
       /\ HomeOf(map, map.keys[i]) # GroupOf(i)
       /\ Cardinality(GetIdxVisited(map, map.keys[i],
                                    hash__hash7(HashMemo[map.keys[i]]) + 128,
                                    HomeOf(map, map.keys[i]), {})) > 1

\* the key in slot i (counted from 1) of t is reached by linear probing from
\* its home slot: no slot from the home slot up to slot i is EMPTY
HashiReachable(t, i) ==
  \A d \in 0..hashi__hash_inv(t, t.keys[i], i - 1) :
    t.keys[((HashiMemo[t.keys[i]] + d) % t.capacity) + 1] # HASHI_EMPTY

\* the pairs stored in t, as the set of <<key, value>> of its slots
HashiPairs(t) == {<<t.keys[i], t.vals[i]>> : i \in HashiStored(t)}

\* C37: after a hashi_del(k) that returns true, hashi_get(k) returns NULL
\* and hashi_get of every other key returns what it returned before; every
\* remaining key is reachable from its home slot without crossing an EMPTY
\* slot, and the slots hold the pairs they held before except that of k,
\* each once
C37_DelKeepsOthers ==
  [][(last'.op = "del" /\ last'.ret = 1) =>
       /\ pc' = "ready"
       /\ hashi_get(table', last'.key).ret = NullPtr
       /\ \A k \in (DOMAIN HashiMemo) \ {HashiKeyOf(last'.key)} :
            hashi_get(table', k) = hashi_get(table, k)
       /\ \A i \in HashiStored(table') : HashiReachable(table', i)
       /\ HashiPairs(table') =
            {p \in HashiPairs(table) : p[1] # HashiKeyOf(last'.key)}
       /\ Cardinality(HashiStored(table')) = Cardinality(HashiStored(table)) - 1]_vars

\* a hashi_del whose back-shift moves a key from slot 0 to slot capacity - 1
\* (slots counted from 0): the slot 0 of the old image holds a key, and in
\* the new image the last slot holds that key and is not where the deleted
\* key was
DelShiftsAcrossEnd ==
  /\ last'.op = "del" /\ last'.ret = 1
  /\ table.keys[1] # HASHI_EMPTY
  /\ table.keys[1] # HashiKeyOf(last'.key)
  /\ table'.keys[table.capacity] = table.keys[1]
  /\ table.keys[table.capacity] # table.keys[1]

\* no hashi_del moves a key back across the end of the array (refuted on
\* SpecHashiWrap)
C37_NoDelShiftsAcrossEnd == [][~DelShiftsAcrossEnd]_vars

\* a del has returned true after five inserts, the fifth of which went to
\* slot 0 (counted from 0) for want of room in slots 4..7: slot 0 is EMPTY and
\* still holds the value of the key that the back-shift moved to the last
\* slot, where get finds it
C37_Witness ==
  /\ last.op = "del" /\ last.ret = 1 /\ pc = "ready"
  /\ hashi_get(table, last.key).ret = NullPtr
  /\ hashi_size(table) = 5
  /\ Cardinality(HashiStored(table)) = 4
  /\ table.keys[1] = HASHI_EMPTY
  /\ table.keys[table.capacity] \notin {HASHI_EMPTY, 0}
  /\ table.vals[1] = ValueOf(table.keys[table.capacity])
  /\ hashi_get(table, table.keys[table.capacity]).ret = table.vals[1]

\* the slots of t that hold no key
HashiEmptySlots(t) == {i \in 1..hashi_capacity(t) : t.keys[i] = HASHI_EMPTY}

\* C38: after any puts and deletes at least one key slot of the table is
\* EMPTY, so that the probe loop shared by hashi_put, hashi__get_slot and
\* hashi_del ends for every key, and no call ever stays in a loop
C38_SomeEmptySlot ==
  /\ pc # "hung"
  /\ table # NullTable =>
       /\ HashiEmptySlots(table) # {}
       /\ \A k \in DOMAIN HashiMemo :
            HashiProbe(table, k, HashiMemo[k] % hashi_capacity(table), 0) # Hang

\* six ids are stored in the table of 8 slots, as many as the growth
\* threshold: two slots are EMPTY, and the next put grows before it inserts
C38_Witness ==
  /\ last.op = "put" /\ last.key = 5 /\ pc = "ready"
  /\ lo = 0 /\ hi = 6
  /\ hashi_capacity(table) = HASHI_START_CAPACITY
  /\ hashi_size(table) = (HASHI_START_CAPACITY \div 4) * 3
  /\ Cardinality(HashiStored(table)) = 6
  /\ Cardinality(HashiEmptySlots(table)) = 2

\* C39: hashi_put, hashi_get and hashi_del treat the key UINT64_MAX as key
\* 0: each gives the same result for the two keys, after a
\* hashi_put(UINT64_MAX, v) hashi_get(0) returns v, and the slots that hold
\* a key hold each key put and not deleted since once, UINT64_MAX never
\* being one of them
C39_SentinelIsKeyZero ==
  (pc = "ready" /\ table # NullTable) =>
     /\ hashi_get(table, HASHI_EMPTY) = hashi_get(table, 0)
     /\ hashi_del(table, HASHI_EMPTY) = hashi_del(table, 0)
     /\ \A v \in {ValueOf(0), WrapValue(HASHI_EMPTY)} :
          hashi_put(table, HASHI_EMPTY, v) = hashi_put(table, 0, v)
     /\ (last.op = "put" /\ last.key = HASHI_EMPTY) =>
          hashi_get(table, 0) = [status |-> "ok", ret |-> last.val]
     /\ (last.op = "del" /\ last.key = HASHI_EMPTY /\ last.ret = 1) =>
          hashi_get(table, 0) = [status |-> "ok", ret |-> NullPtr]
     /\ {table.keys[i] : i \in HashiStored(table)} = DOMAIN model
     /\ Cardinality(HashiStored(table)) = Cardinality(DOMAIN model)
     /\ HASHI_EMPTY \notin DOMAIN model

\* hashi_put(UINT64_MAX, 1) has been called on a table that holds key 1,
\* whose home slot is that of key 0: get(0) returns 1, and get(1) the value
\* of key 1
C39_Witness ==
  /\ last.op = "put" /\ last.key = HASHI_EMPTY /\ pc = "ready"
  /\ last.val = WrapValue(HASHI_EMPTY)
  /\ hashi_get(table, 0).ret = WrapValue(HASHI_EMPTY)
  /\ hashi_get(table, HASHI_EMPTY).ret = WrapValue(HASHI_EMPTY)
  /\ hashi_get(table, 1).ret = ValueOf(1)
  /\ Cardinality(HashiStored(table)) = 2

\* C40: s_insertion and s_selection called with dim = 0 (and the allocation
\* succeeding) touch no element and return 0: the call returns, the array
\* is as before, and the value returned is 0
C40_EmptyArrayUntouched ==
  (/\ last.op \in {"s_insertion", "s_selection"}
   /\ last.val = <<>>
   /\ last.key.allocOk) =>
     /\ pc = "ready"
     /\ last.status = "ok"
     /\ last.ret = 0
     /\ input = <<>>

\* the same for s_insertion alone
C40_EmptyArrayUntouchedByInsertion ==
  (/\ last.op = "s_insertion"
   /\ last.val = <<>>
   /\ last.key.allocOk) =>
     /\ pc = "ready"
     /\ last.status = "ok"
     /\ last.ret = 0
     /\ input = <<>>

\* s_insertion has returned 0 for the empty array
C40_InsertionReturned ==
  /\ last.op = "s_insertion" /\ last.val = <<>> /\ last.key.allocOk
  /\ pc = "ready" /\ last.ret = 0

====
